---- MODULE Spec2Model ----
(***************************************************************************)
(* The drwrap function wrapping and replacing extension, driven by the     *)
(* drwrap-test client (suite/tests/client-interface/drwrap-test.dll.c),    *)
(* on one application thread.                                              *)
(*                                                                         *)
(* The client's event handlers and callbacks are translated from the test  *)
(* client.  The extension itself (drwrap.c) is known only through its      *)
(* header (drwrap.h) and the specification's section 4.11; its operators   *)
(* follow those texts.                                                     *)
(***************************************************************************)
EXTENDS Integers, Sequences, FiniteSets, TLC

\* --------------------------------------------------------------- bounds
\* The longest callback history that is recorded.
MaxLog == 10
\* The longest history of application steps that is recorded.
MaxScript == 8
\* How many times the application library is loaded.
MaxLoads == 2

\* ------------------------------------------------------------ constants
\* The sentinel for a NULL callback, a NULL replacement, a NULL wrapcxt.
NULL == "NULL"
\* The application's stack pointer before any call (stack grows down).
StackBase == 16

\* The application library's exports the client looks up.
WrapFuncs ==
  {"level0", "level1", "level2", "makes_tailcall", "skipme", "preonly",
   "postonly", "runlots"}
LongFuncs == {"long0", "long1", "long2", "long3", "longdone"}
ReplFuncs == {"replaceme", "replaceme2"}
Funcs == WrapFuncs \cup LongFuncs \cup ReplFuncs

\* The client's replacement routines.
Replacements == {"replacewith", "replacewith2"}

\* The argument values the application passes as first argument.
ArgVals == {37, 5}

\* Who a function of the application library calls.  "main" is the
\* application outside every function of the library.
Callees(f) ==
  CASE f = "main"   -> Funcs
    [] f = "level0" -> {"level1"}
    [] f = "level1" -> {"level2"}
    [] f = "long0"  -> {"long1"}
    [] f = "long1"  -> {"long2"}
    [] f = "long2"  -> {"long3"}
    [] OTHER        -> {}

\* The functions that leave by a nonlocal jump (longjmp).
Jumpers == {"long0", "long1", "long2", "long3"}

VARIABLES
  windows,         \* the build: #ifdef WINDOWS
  load_count,      \* the client's load_count
  loaded,          \* the application library is loaded
  no_frills,       \* drwrap's global flags hold DRWRAP_NO_FRILLS
  wrap_table,      \* function -> list of wrap records, head first
  replace_table,   \* function -> replacement, or NULL
  replace_native_table,
  reg_order,       \* function -> callback pairs in order of registration
  app_stack,       \* the application's live frames of library functions
  xsp,             \* the application's stack pointer
  wrap_stack,      \* the thread's wrap-stack
  tls_val,         \* the client's TLS field
  aborted,         \* a CHECK of the client failed: dr_abort()
  ev,              \* the last operation and what it did
  recording,       \* the two histories below are being kept
  log,             \* the callbacks invoked so far, in order
  script,          \* the application's calls, returns and jumps so far
  thr,             \* win32/os.c: thread -> thread record
  dr,              \* win32/os.c: the engine's process-wide state
  inj,             \* linux/injector.c: an injectee and its injector
  kid,             \* win32/os.c: a child process at its creation
  lck,             \* win32/os.c: the engine's locks and the core dump
  mtx,             \* win32/os.c: one contended mutex and its event
  chp,             \* linux/injector.c: a child created suspended
  mem,             \* win32/os.c: a range of pages and a protection request
  cbk,             \* win32/os.c: stacked callbacks at detach
  cli,             \* win32/os.c: client threads and the all-threads list
  dmp              \* win32/os.c: the threads a live dump suspends

vars ==
  <<windows, load_count, loaded, no_frills, wrap_table, replace_table,
    replace_native_table, reg_order, app_stack, xsp, wrap_stack,
    tls_val, aborted, ev, recording, log, script, thr, dr, inj, kid,
    lck, mtx, chp, mem, cbk, cli, dmp>>

\* The state of the wrap extension and its client, and of the core.
wrap_vars ==
  <<windows, load_count, loaded, no_frills, wrap_table, replace_table,
    replace_native_table, reg_order, app_stack, xsp, wrap_stack,
    tls_val, aborted, ev, recording, log, script>>
core_vars == <<thr, dr>>
inject_vars == <<inj, kid>>
more_vars == <<lck, mtx, chp, mem, cbk, cli, dmp>>

\* ------------------------------------------------ the core: its state
Tids == {"t1", "t2", "t3"}

\* The order of the thread records in the array synch_with_all_threads
\* hands out.
ThreadOrder == <<"t1", "t2", "t3">>

\* under_dynamo_control of a thread record: true, false, or the
\* UNDER_DYN_HACK of a thread that lost control at a callback return.
\* A client-owned thread has no application state.
ThreadKinds ==
  { [under_dynamo_control |-> "true",  client |-> FALSE],
    [under_dynamo_control |-> "false", client |-> FALSE],
    [under_dynamo_control |-> "UNDER_DYN_HACK", client |-> FALSE],
    [under_dynamo_control |-> "false", client |-> TRUE] }

Native(kind) == kind.under_dynamo_control # "true"

\* A thread record.
\*   st          "running", "suspended", "resumed" (by a detach), "dead"
\*   xip         where its context's PC is: "app", "fcache", "dynamo"
\*   retaddr     the return address at native_exec_retloc: "app", or
\*               "back_from_native" while a native_exec call is clobbered
\*   translated  translate_context ran on its suspended context
\*   written     thread_set_context wrote the context back
\*   at          where it is in detach_helper, "synchall" while it has
\*               all threads synched for another reason, or "none"
\*   detach_type the argument of detach_helper
\*   via         who called detach_helper: "nudge" or "os_terminate"
\*   term        the terminate_type it called os_terminate with, or {}
ThreadOf(kind) ==
  [st |-> "running",
   under_dynamo_control |-> kind.under_dynamo_control,
   client |-> kind.client,
   xip |-> IF Native(kind) THEN "app" ELSE "dynamo",
   retaddr |-> IF kind.under_dynamo_control = "false" /\ ~kind.client
               THEN "back_from_native" ELSE "app",
   translated |-> FALSE, written |-> FALSE,
   at |-> "none", detach_type |-> "none", via |-> "none", term |-> {}]

\* internal_detach_mask: neither flag, DETACH_ON_TERMINATE, or
\* DETACH_ON_TERMINATE_NO_CLEAN.
DetachMasks == {"none", "DETACH_ON_TERMINATE", "DETACH_ON_TERMINATE_NO_CLEAN"}

\* The engine's process-wide state after initialization.
\*   unprotected     SELF_UNPROTECT_DATASEC calls not yet undone
\*   intercepted     ntdll is patched (callback interception)
\*   reverted        revert_memory_regions has run
\*   syslog          "Detach called without the allow_detach option set"
\*                   has been reported
\*   i               the index of the loop over the threads
\*   last            the last step of detach_helper or os_terminate and
\*                   the thread that took it
EngineOf(allow_detach, internal_detach_mask) ==
  [dynamo_initialized |-> TRUE, dynamo_exited |-> FALSE,
   dynamo_detaching_flag |-> "LOCK_FREE_STATE",
   doing_detach |-> FALSE, internal_detach |-> FALSE,
   allow_detach |-> allow_detach,
   internal_detach_mask |-> internal_detach_mask,
   unprotected |-> 0,
   init_apc_go_native |-> FALSE, init_apc_go_native_pause |-> FALSE,
   intercepted |-> TRUE, reverted |-> FALSE, image_entry_hooked |-> FALSE,
   syslog |-> FALSE,
   all_threads_synch_lock |-> NULL, thread_initexit_lock |-> NULL,
   process |-> "alive", i |-> 0,
   last |-> <<"none", NULL>>]

\* One controlled thread per record and no detach option.
CoreIdle ==
  /\ thr = [t \in Tids |-> ThreadOf([under_dynamo_control |-> "true",
                                       client |-> FALSE])]
  /\ dr = EngineOf(FALSE, "none")

\* -------------------------------------------- the injector: its state
PAGE_SIZE == 4096

\* The length of a path buffer.
MAXIMUM_PATH == 6

\* The child processes followed.
MaxChildren == 2

ALIGN_BACKWARD(x, alignment) == x - (x % alignment)

ALIGN_FORWARD(x, alignment) == ALIGN_BACKWARD(x + (alignment - 1), alignment)

\* sizeof(ptr_int_t), the size of the red zone below the stack pointer
\* and the alignment of the stack at a call, on x64 and on x86.
PtrSize(x64) == IF x64 THEN 8 ELSE 4
REDZONE_SIZE(x64) == IF x64 THEN 128 ELSE 0
REGPARM_END_ALIGN(x64) == IF x64 THEN 16 ELSE 4

\* The registers of struct user_regs_struct that the model follows: the
\* PC, the stack pointer, the return value register and the flags.
RegFields == {"pc", "sp", "ax", "flags"}

\* The register files of an injectee stopped by PTRACE_ATTACH or at its
\* execve: stack pointers of every alignment, two PCs, two flag values.
StopRegs ==
  [pc : {3 * PAGE_SIZE + 5, 7 * PAGE_SIZE}, sp : 8000 .. 8015,
   ax : {11}, flags : {514, 582}]

\* $HOME of the injector: strings shorter and longer than a path buffer.
Homes == { <<"/">>, <<"/", "h", "o", "m", "e">>,
           <<"/", "h", "o", "m", "e", "/", "u">> }

\* e_entry + load_delta of the library mapped into the injectee.
EntryVals == {90000, 90016}

NoRegs == [pc |-> 0, sp |-> 0, ax |-> 0, flags |-> 0]

\* How many faults the engine's initialisation takes in the injectee
\* before it stops for another reason.
MaxFaults == 2

\* signal = 0: PTRACE_CONT delivers nothing.
NoSignal == "0"

\* What waitpid gives for the continued injectee: an error, or a status
\* that says it stopped with a signal, exited, or was killed by a signal.
WaitStatuses ==
  [r : {-1}, kind : {"none"}, sig : {NoSignal}]
    \cup [r : {1}, kind : {"WIFSTOPPED"},
          sig : {"SIGTRAP", "SIGSEGV", "SIGSTOP"}]
    \cup [r : {1}, kind : {"WIFEXITED"}, sig : {NoSignal}]
    \cup [r : {1}, kind : {"WIFSIGNALED"}, sig : {"SIGSEGV", "SIGKILL"}]

\* An injectee and the locals of inject_ptrace.
\*   at      where inject_ptrace is, "returned" once it has
\*   regs    the injectee's registers
\*   code    the page of the injectee's PC: "orig", or "shell" while it
\*           holds shellcode
\*   stopped the injectee's registers when it stopped for the injection
\*   block   what was written to the injectee's stack and where, in a
\*           sequence of at most one element
\*   ret     the value inject_ptrace returned, NULL while it has not
\*   signal  the signal the next PTRACE_CONT delivers, NoSignal for 0
\*   loop    where the loop that continues the injectee is: "cont" before
\*           a PTRACE_CONT, "wait" before the waitpid, "out" after the
\*           loop, "none" while it was not entered
\*   conts, stops
\*           the signals the PTRACE_CONT calls that succeeded delivered,
\*           and the signals the injectee stopped with, in order (kept
\*           for the properties only)
InjecteeOf(x64, pipe_fd, regs, home) ==
  [x64 |-> x64, pipe_fd |-> pipe_fd, HOME |-> home,
   at |-> "start", regs |-> regs, code |-> "orig", stopped |-> NoRegs,
   retval |-> 0, injected_dr_start |-> 0,
   block |-> <<>>, ret |-> NULL,
   signal |-> NoSignal, loop |-> "none", conts |-> <<>>, stops |-> <<>>]

\* A child process at a potential injection point.
\*   cxt           the cxt argument: NULL at CreateProcess, else the
\*                 context of the thread being created
\*   at_create     -inject_at_create_process is in force
\*   wow64, first_thread
\*                 is_wow64_process, is_first_thread_in_new_process
\*   should_inject what systemwide_should_inject says of the child
\*   systemwide_inject_enabled
\*   asked, inject should_inject_into_process was called, and what it
\*                 returned
\*   options       the follow options it read
\*   inject_settings
\*                 the OUT argument of should_inject_into_process
\*   injecting     inject_into_process was called
ChildOf(cxt, at_create, wow64, first_thread, should_inject, enabled) ==
  [cxt |-> cxt, at_create |-> at_create, wow64 |-> wow64,
   first_thread |-> first_thread, should_inject |-> should_inject,
   systemwide_inject_enabled |-> enabled,
   asked |-> FALSE, inject |-> FALSE, options |-> <<>>,
   inject_settings |-> {}, injecting |-> FALSE]

FollowOptions ==
  [follow_children : BOOLEAN, follow_explicit_children : BOOLEAN,
   follow_systemwide : BOOLEAN]

\* No injection under way and no child being created.
InjectIdle ==
  /\ inj = InjecteeOf(TRUE, 0, NoRegs, <<>>)
  /\ kid = [options |-> [follow_children |-> FALSE,
                         follow_explicit_children |-> FALSE,
                         follow_systemwide |-> FALSE],
            child |-> <<>>, children |-> 0]

\* ------------------------------------- the core: locks and the core dump
\* How many threads take the engine's locks.
MaxLockers == 2
\* How often os_dump_core_live_dump tries all_threads_lock before it goes
\* on without it (the source's "arbitrary num" of tries).
LiveDumpTries == 2

LockTids == 1 .. MaxLockers

\* The engine's locks that win32/os.c names, outermost first.  That
\* all_threads_synch_lock ranks before bb_building_lock is stated in
\* os_terminate; thread_initexit_lock follows all_threads_synch_lock in
\* synch_with_all_threads.  The places of all_threads_lock and
\* dump_core_lock are the ones the rank discipline of the specification
\* needs for the dump of a thread that holds no lock.
LockRank ==
  <<"all_threads_synch_lock", "thread_initexit_lock", "bb_building_lock",
    "dump_core_lock", "all_threads_lock">>
Locks == {LockRank[i] : i \in 1 .. Len(LockRank)}
RankOf(l) == CHOOSE i \in 1 .. Len(LockRank) : LockRank[i] = l

\* The locks the engine's code takes with mutex_lock outside termination
\* and the core dump.
EngineLocks == {"thread_initexit_lock", "bb_building_lock", "all_threads_lock"}

\* held is in order of acquisition.
InRankOrder(held) ==
  \A i, j \in 1 .. Len(held) : i < j => RankOf(held[i]) < RankOf(held[j])

\* l may be taken after everything in held without breaking the order.
RankAllows(held, l) ==
  \A i \in 1 .. Len(held) : RankOf(held[i]) < RankOf(l)

Without(held, l) == SelectSeq(held, LAMBDA x : x # l)

\* No thread holds a lock, nobody dumps core.
LocksOf(live_dump) ==
  [owner |-> [l \in Locks |-> 0],
   held |-> [t \in LockTids |-> <<>>],
   at |-> [t \in LockTids |-> "run"],
   i |-> 0,
   have_all_threads_lock |-> FALSE,
   current_dumping_thread_id |-> 0,
   dump_core_buf |-> 0,
   thread_owned_locks |-> [t \in LockTids |-> TRUE],
   live_dump |-> live_dump,
   last |-> <<"none", 0>>]

LockIdle == lck = LocksOf(FALSE)

\* --------------------------------- the core: a contended mutex's event
\* How many threads reach the contended path of the one mutex.
MaxContenders == 3

MutexTids == 1 .. MaxContenders

\* The value of lock->contended_event before any event is created.
CONTENTION_EVENT_NOT_CREATED == 0

\* The handle nt_create_event gives thread t: fresh, and none of the
\* others'.
nt_create_event(t) == t

\* A contender before its call.
ContenderIdle ==
  [at |-> "idle", op |-> "none", ret |-> CONTENTION_EVENT_NOT_CREATED,
   new_event |-> CONTENTION_EVENT_NOT_CREATED, reported_timeout |-> FALSE,
   res |-> "none"]

\* The mutex with no event yet; deadlock_timeout is whether the option
\* of that name is positive.
MutexOf(deadlock_timeout) ==
  [contended_event |-> CONTENTION_EVENT_NOT_CREATED,
   open |-> {},
   closed |-> {},
   signaled |-> {},
   th |-> [t \in MutexTids |-> ContenderIdle],
   do_once |-> FALSE,
   reports |-> 0,
   sets |-> 0,
   wakeups |-> 0,
   deadlock_timeout |-> deadlock_timeout,
   last |-> <<"none", 0>>]

MutexIdle == mtx = MutexOf(FALSE)

\* ------------------------- the injector: a child created suspended
\* The longest library path given to dr_inject_process_inject.
MaxLibPath == 4

\* Strings are sequences of characters; a command word of the control
\* pipe ("ld_preload", "exec_dr", "ptrace") counts as one character, and
\* so does the application's path "exe".
LibPath(n) == [i \in 1 .. n |-> "/"]
isspace(c) == c = " "

\* What the application exits with; a child that could not exec exits
\* with -1, one that was killed has the status of SIGKILL, and an exit
\* code never stored is -1.
ExitCodes == {0, 1}
ExecFailed == 255
Killed == 9
NoExitCode == -1

\* The child while it reads the pipe.
ChildReading ==
  [at |-> "reading", sofar |-> 0, pipe_cmd |-> <<>>, real_exe |-> <<>>,
   LD_PRELOAD |-> <<>>, DYNAMORIO_VAR_EXE_PATH |-> <<>>, status |-> 0]

\* After dr_inject_process_create: the child is forked and reads, the
\* injector holds the other end of the pipe.
CreatedChild ==
  [info |-> [pipe_fd |-> 1, method |-> "INJECT_LD_PRELOAD",
             exited |-> FALSE, exitcode |-> NoExitCode],
   pipe |-> <<>>,
   written |-> <<>>,
   child |-> ChildReading,
   injected |-> FALSE,
   ran |-> FALSE,
   freed |-> FALSE,
   observed |-> FALSE,
   rewaited |-> FALSE,
   calls |-> {},
   terminate |-> FALSE,
   status |-> NoExitCode,
   last |-> "none"]

ChildIdle == chp = CreatedChild

\* ------------------------------------- the core: changing page protection
\* How many pages the memory of the protection requests has.  Addresses
\* and sizes are counted in pages.
MaxPages == 2

PageNos == 1 .. MaxPages

\* The protection values of the switch in internal_change_protection;
\* the qualifier bits it preserves are left out.
Protections ==
  {"PAGE_NOACCESS", "PAGE_READONLY", "PAGE_READWRITE", "PAGE_WRITECOPY",
   "PAGE_EXECUTE", "PAGE_EXECUTE_READ", "PAGE_EXECUTE_READWRITE",
   "PAGE_EXECUTE_WRITECOPY"}
WritableProtections ==
  {"PAGE_READWRITE", "PAGE_WRITECOPY", "PAGE_EXECUTE_READWRITE",
   "PAGE_EXECUTE_WRITECOPY"}

\* The protections asked for with set.
NewProts == {"PAGE_READONLY", "PAGE_EXECUTE_READWRITE"}

\* A page as query_virtual_memory describes it; Protect means something
\* only for a committed page.
PageInfos ==
  [State : {"MEM_COMMIT"}, Protect : Protections]
    \cup [State : {"MEM_RESERVE", "MEM_FREE"}, Protect : {"PAGE_NOACCESS"}]

\* The memory with no request under way; query_virtual_memory fails for
\* the pages from kernel on.  has_out is whether the caller passed a
\* changed_protection to write to, and changed_protection is empty
\* until it is written.  entry (the pages as the call found them) and
\* protect_calls (how often protect_virtual_memory was called) are kept
\* for the properties only.
MemoryOf(pages, kernel) ==
  [pages |-> pages,
   kernel |-> kernel,
   at |-> "idle",
   start |-> 1,
   requested_size |-> 1,
   set |-> FALSE,
   writable |-> FALSE,
   cow |-> FALSE,
   new_prot |-> "PAGE_READONLY",
   pc |-> 1,
   remaining_size |-> 0,
   changed_permissions |-> FALSE,
   subregions_failed |-> FALSE,
   requests_failed |-> 0,
   query_failed |-> FALSE,
   ret |-> FALSE,
   has_out |-> FALSE,
   changed_protection |-> <<>>,
   entry |-> pages,
   protect_calls |-> 0]

MemIdle ==
  mem = MemoryOf([p \in PageNos |->
                    [State |-> "MEM_RESERVE", Protect |-> "PAGE_NOACCESS"]],
                 MaxPages + 1)

\* ------------------------- the core: stacked callbacks at detach
\* How many threads detach_helper has synched with, and how many
\* callbacks are stacked in a thread at most.
MaxCbThreads == 2
MaxCallbacks == 2

CbTids == 1 .. MaxCbThreads

SyscallMethods == {"SYSCALL_METHOD_SYSENTER", "SYSCALL_METHOD_INT"}
DetachTypes ==
  {"DETACH_NORMAL_TYPE", "DETACH_BAD_STATE", "DETACH_BAD_STATE_NO_CLEANUP"}

\* POST_SYSCALL_PC of the k-th stacked dcontext of thread i: an
\* application address, a different one for each.
POST_SYSCALL_PC(i, k) == 1000 * i + 8 * k

\* The after-syscall address in the private code of thread i, and
\* whether an address lies in a thread's private code.
after_do_syscall_code(i) == 1000 * i + 1
is_dynamo_address(pc) == pc % 8 = 1

\* The stacked callbacks of a thread, from dcontext->prev_unused on: the
\* valid dcontexts of the chain.  xsp_slot is the return address on the
\* application stack at the saved xsp: the after-syscall code of the
\* thread's private code while the engine has it replaced.
StackedCallbacks(i, n) ==
  [k \in 1 .. n |->
     [post_syscall_pc |-> POST_SYSCALL_PC(i, k),
      xsp_slot |-> after_do_syscall_code(i)]]

\* detach_helper once the threads are synched.
\*   dcontexts     thread -> its stacked callbacks
\*   my_thread_index
\*                 the detaching thread's place in threads, -1 if none
\*   cleanup_tpc   the array handed to detach_helper_handle_callbacks
\*   callback_addrs, per_thread
\*                 the arrays of the callback dispatch buffer
\*   patched       the threads whose after-syscall code was redirected
\*                 to the dispatch buffer
\*   tpc           thread -> its private code is "live" or "freed"
\*   state         thread -> "suspended", "resumed" or "terminated"
\*   landed        thread -> where its callback returns went, in order
CallbacksOf(method, fix, detach_type, my_thread_index, counts) ==
  [syscall_method |-> method,
   detach_fix_sysenter_on_stack |-> fix,
   detach_type |-> detach_type,
   my_thread_index |-> my_thread_index,
   dcontexts |-> [i \in CbTids |-> StackedCallbacks(i, counts[i])],
   at |-> "first_walk",
   i |-> 1,
   num_threads_with_callbacks |-> 0,
   num_stacked_callbacks |-> 0,
   cleanup_tpc |-> [i \in CbTids |-> FALSE],
   detach_stacked_callbacks |-> FALSE,
   callback_addrs |-> <<>>,
   per_thread |-> <<>>,
   patched |-> {},
   tpc |-> [i \in CbTids |-> "live"],
   state |-> [i \in CbTids |-> "suspended"],
   landed |-> [i \in CbTids |-> <<>>]]

CallbackIdle ==
  cbk = CallbacksOf("SYSCALL_METHOD_INT", FALSE, "DETACH_NORMAL_TYPE", 1,
                    [i \in CbTids |-> 0])

\* ----------------------------------------- the core: client threads
\* How many threads a client creates.
MaxClients == 3

CliTids == 1 .. MaxClients

\* The client's threads, the all-threads list and exiting_thread_count.
\*   at   thread -> "none" (not created), "created" (running, not yet
\*        recorded), "run", then where dr_terminate_client_thread is, and
\*        "terminated"
\*   ret  thread -> what dr_terminate_client_thread returned, if it did
\*   kind thread -> "client", or "app" for a thread of the application,
\*        which is under the engine's control and on the list
\*   counted
\*        the threads whose ATOMIC_INC of exiting_thread_count is done
\*        (kept for the properties only)
ClientsOf(kind) ==
  [kind |-> kind,
   at |-> [t \in CliTids |-> IF kind[t] = "app" THEN "run" ELSE "none"],
   all_threads |-> {t \in CliTids : kind[t] = "app"},
   exiting_thread_count |-> 0,
   counted |-> {},
   ret |-> [t \in CliTids |-> "none"]]

ClientIdle == cli = ClientsOf([t \in CliTids |-> "client"])

\* ------------------------------- the core: the threads of a live dump
\* How many threads the process has beside the dumping thread, and how
\* often a caller has suspended a thread at most.
MaxDumpThreads == 2
MaxSuspended == 1

DmpTids == 1 .. MaxDumpThreads

\* The threads a live dump walks.
\*   all_threads   the ids on the all-threads list beside the dumper's
\*   suspend_count thread -> its suspend count in the kernel
\*   entry, entry_threads
\*                 the suspend counts and the list when the dump began
\*   lock          how the dump stands to all_threads_lock: "taken" by
\*                 it, "owned" by the dumping thread before, or "none"
\*   i             the walk got past the threads up to i
\*   suspended, resumed
\*                 thread -> the results of the thread_suspend and
\*                 thread_resume calls of the dump on it, in order
LiveDumpOf(all_threads, all_threads_null, suspend_count) ==
  [all_threads |-> all_threads,
   all_threads_null |-> all_threads_null,
   suspend_count |-> suspend_count,
   entry |-> suspend_count,
   entry_threads |-> all_threads,
   have_all_threads_lock |-> FALSE,
   lock |-> "none",
   at |-> "idle",
   i |-> 0,
   suspended |-> [t \in DmpTids |-> <<>>],
   resumed |-> [t \in DmpTids |-> <<>>]]

DumpIdle ==
  dmp = LiveDumpOf({}, FALSE, [t \in DmpTids |-> 0])

RestIdle ==
  /\ CallbackIdle
  /\ ClientIdle
  /\ DumpIdle

MoreIdle ==
  /\ LockIdle
  /\ MutexIdle
  /\ ChildIdle
  /\ MemIdle
  /\ RestIdle

\* --------------------------------------------------------------- helpers
Last(s) == s[Len(s)]
Front(s) == SubSeq(s, 1, Len(s) - 1)

RECURSIVE RemoveFirst(_, _)
\* s without its first element equal to x.
RemoveFirst(s, x) ==
  IF s = <<>> THEN <<>>
  ELSE IF Head(s) = x THEN Tail(s)
  ELSE <<Head(s)>> \o RemoveFirst(Tail(s), x)

RECURSIVE Reverse(_)
Reverse(s) == IF s = <<>> THEN <<>> ELSE Reverse(Tail(s)) \o <<Head(s)>>

\* ------------------------------------------------ the extension: tables
\* A context G carries everything an operation of the extension or a
\* callback of the client reads and writes:
\*   wt, rt, rnt, ro     wrap_table, replace_table, replace_native_table,
\*                       reg_order
\*   nf                  no_frills
\*   lc                  load_count
\*   tls, aborted, log   tls_val, aborted, log
\*   rec                 recording
\*   ws                  wrap_stack
\*   ok                  the result of the last call into the extension
\*   where               "pre", "post" or "none": the callback running
\*   args, retval        the wrapped call's arguments and return value
\*   skip, skipval       drwrap_skip_call was called, and with what
\*   ud                  *user_data of the callback running
\*   flagged             a wrap context was misused
\*   cbs                 the callbacks this operation invoked
\*   posts               the post-callbacks collected for the new frame
\*   garbage             what stands in for user data that is not preserved

Pair(pre, post) == [pre |-> pre, post |-> post]

\* drwrap_is_wrapped comparing the pre-callback only.
drwrap_is_wrapped_pre(G, func, pre, post) ==
  \E i \in 1..Len(G.wt[func]) : G.wt[func][i].pre = pre

drwrap_is_wrapped(G, func, pre, post) ==
  \E i \in 1..Len(G.wt[func]) :
    G.wt[func][i].pre = pre /\ G.wt[func][i].post = post

\* drwrap_wrap_ex adding the new wrap at the tail of the list.
drwrap_wrap_ex_tail(G, func, pre, post, user_data) ==
  IF \/ (pre = NULL /\ post = NULL)
     \/ drwrap_is_wrapped(G, func, pre, post)
     \/ (G.nf /\ G.wt[func] # <<>>)
  THEN [G EXCEPT !.ok = FALSE]
  ELSE [G EXCEPT
          !.wt[func] = Append(@, [pre |-> pre, post |-> post,
                                  user_data |-> user_data]),
          !.ro[func] = Append(@, Pair(pre, post)),
          !.ok = TRUE]

\* The new wrap goes to the head of the function's list: the callbacks
\* are called in the reverse order of registration.
drwrap_wrap_ex(G, func, pre, post, user_data) ==
  IF \/ (pre = NULL /\ post = NULL)
     \/ drwrap_is_wrapped(G, func, pre, post)
     \/ (G.nf /\ G.wt[func] # <<>>)
  THEN [G EXCEPT !.ok = FALSE]
  ELSE [G EXCEPT
          !.wt[func] = <<[pre |-> pre, post |-> post,
                          user_data |-> user_data]>> \o @,
          !.ro[func] = Append(@, Pair(pre, post)),
          !.ok = TRUE]

drwrap_wrap(G, func, pre, post) == drwrap_wrap_ex(G, func, pre, post, 0)

RECURSIVE RemoveWrap(_, _, _)
RemoveWrap(s, pre, post) ==
  IF s = <<>> THEN <<>>
  ELSE IF Head(s).pre = pre /\ Head(s).post = post THEN Tail(s)
  ELSE <<Head(s)>> \o RemoveWrap(Tail(s), pre, post)

\* drwrap_unwrap dropping every wrap of the function.
drwrap_unwrap_all(G, func, pre, post) ==
  IF drwrap_is_wrapped(G, func, pre, post)
  THEN [G EXCEPT !.wt[func] = <<>>, !.ro[func] = <<>>, !.ok = TRUE]
  ELSE [G EXCEPT !.ok = FALSE]

\* drwrap_unwrap refusing to work while a callback is running.
drwrap_unwrap_idle(G, func, pre, post) ==
  IF drwrap_is_wrapped(G, func, pre, post) /\ G.where = "none"
  THEN [G EXCEPT
          !.wt[func] = RemoveWrap(@, pre, post),
          !.ro[func] = RemoveFirst(@, Pair(pre, post)),
          !.ok = TRUE]
  ELSE [G EXCEPT !.ok = FALSE]

drwrap_unwrap(G, func, pre, post) ==
  IF drwrap_is_wrapped(G, func, pre, post)
  THEN [G EXCEPT
          !.wt[func] = RemoveWrap(@, pre, post),
          !.ro[func] = RemoveFirst(@, Pair(pre, post)),
          !.ok = TRUE]
  ELSE [G EXCEPT !.ok = FALSE]

\* drwrap_replace ignoring its override parameter.
drwrap_replace_always(G, original, replacement, override) ==
  [G EXCEPT !.rt[original] = replacement, !.ok = TRUE]

\* drwrap_replace refusing a NULL replacement.
drwrap_replace_keep(G, original, replacement, override) ==
  IF (G.rt[original] # NULL /\ ~override) \/ replacement = NULL
  THEN [G EXCEPT !.ok = FALSE]
  ELSE [G EXCEPT !.rt[original] = replacement, !.ok = TRUE]

\* Only one replacement per address: a second call fails unless override
\* is set; NULL with override removes the replacement.
drwrap_replace(G, original, replacement, override) ==
  IF G.rt[original] # NULL /\ ~override
  THEN [G EXCEPT !.ok = FALSE]
  ELSE [G EXCEPT !.rt[original] = replacement, !.ok = TRUE]

drwrap_replace_native(G, original, replacement, override) ==
  IF G.rnt[original] # NULL /\ ~override
  THEN [G EXCEPT !.ok = FALSE]
  ELSE [G EXCEPT !.rnt[original] = replacement, !.ok = TRUE]

\* Flags are only ever added.
drwrap_set_global_flags(G, frills) == [G EXCEPT !.nf = @ \/ frills]

\* ---------------------------------------- the extension: wrap contexts
\* A wrapcxt is the wrapped function's address, or NULL on an abnormal
\* unwind.
drwrap_get_func(wrapcxt) == wrapcxt

drwrap_get_arg(G, arg) == G.args[arg + 1]

drwrap_set_arg(G, arg, val) ==
  IF G.where = "pre"
  THEN [G EXCEPT !.args[arg + 1] = val, !.ok = TRUE]
  ELSE [G EXCEPT !.ok = FALSE, !.flagged = TRUE]

drwrap_get_retval(G) == G.retval

\* drwrap_set_retval taking effect wherever it is called from.
drwrap_set_retval_any(G, val) ==
  [G EXCEPT !.retval = val, !.ok = TRUE]

drwrap_set_retval(G, val) ==
  IF G.where = "post"
  THEN [G EXCEPT !.retval = val, !.ok = TRUE]
  ELSE [G EXCEPT !.ok = FALSE, !.flagged = TRUE]

drwrap_skip_call(G, retval, stdcall_args_size) ==
  IF G.where = "pre"
  THEN [G EXCEPT !.skip = TRUE, !.skipval = retval, !.ok = TRUE]
  ELSE [G EXCEPT !.ok = FALSE, !.flagged = TRUE]

\* ------------------------------------------------- the client: callbacks
\* CHECK(x, msg): dr_abort() unless x.
Abort(G) == [G EXCEPT !.aborted = TRUE]
CHECK(G, x) == IF x THEN G ELSE Abort(G)

\* wrap_pre skipping skipme with 8 for 7.
wrap_pre_skip8(G, wrapcxt) ==
  IF wrapcxt = NULL THEN Abort(G)
  ELSE CASE drwrap_get_func(wrapcxt) = "level0" ->
              IF drwrap_get_arg(G, 0) # 37 THEN Abort(G)
              ELSE LET G1 == drwrap_set_arg(G, 0, 42)
                   IN  IF G1.ok THEN [G1 EXCEPT !.ud = 99] ELSE Abort(G1)
         [] drwrap_get_func(wrapcxt) = "level1" ->
              LET G1 == drwrap_set_arg(G, 1, 1111) IN CHECK(G1, G1.ok)
         [] drwrap_get_func(wrapcxt) = "makes_tailcall" -> G
         [] drwrap_get_func(wrapcxt) = "level2" -> G
         [] drwrap_get_func(wrapcxt) = "skipme" -> drwrap_skip_call(G, 8, 0)
         [] drwrap_get_func(wrapcxt) = "preonly" -> G
         [] OTHER -> Abort(G)

\* wrap_pre leaving level0's argument and the user data as they are.
wrap_pre_idle(G, wrapcxt) ==
  IF wrapcxt = NULL THEN Abort(G)
  ELSE CASE drwrap_get_func(wrapcxt) = "level0" ->
              IF drwrap_get_arg(G, 0) # 37 THEN Abort(G) ELSE G
         [] drwrap_get_func(wrapcxt) = "level1" ->
              LET G1 == drwrap_set_arg(G, 1, 1111) IN CHECK(G1, G1.ok)
         [] drwrap_get_func(wrapcxt) = "makes_tailcall" -> G
         [] drwrap_get_func(wrapcxt) = "level2" -> G
         [] drwrap_get_func(wrapcxt) = "skipme" -> drwrap_skip_call(G, 7, 0)
         [] drwrap_get_func(wrapcxt) = "preonly" -> G
         [] OTHER -> Abort(G)

wrap_pre(G, wrapcxt) ==
  IF wrapcxt = NULL THEN Abort(G)
  ELSE CASE drwrap_get_func(wrapcxt) = "level0" ->
              IF drwrap_get_arg(G, 0) # 37 THEN Abort(G)
              ELSE LET G1 == drwrap_set_arg(G, 0, 42)
                   IN  IF G1.ok THEN [G1 EXCEPT !.ud = 99] ELSE Abort(G1)
         [] drwrap_get_func(wrapcxt) = "level1" ->
              LET G1 == drwrap_set_arg(G, 1, 1111) IN CHECK(G1, G1.ok)
         [] drwrap_get_func(wrapcxt) = "makes_tailcall" -> G
         [] drwrap_get_func(wrapcxt) = "level2" -> G
         [] drwrap_get_func(wrapcxt) = "skipme" -> drwrap_skip_call(G, 7, 0)
         [] drwrap_get_func(wrapcxt) = "preonly" -> G
         [] OTHER -> Abort(G)

\* The three unwraps of the postonly branch, each followed by its CHECK.
UnwrapChecked(G, func, pre, post) ==
  IF G.aborted THEN G
  ELSE LET G1 == drwrap_unwrap(G, func, pre, post)
       IN  CHECK(G1, ~drwrap_is_wrapped(G1, func, pre, post))

wrap_post(G, wrapcxt, user_data) ==
  IF wrapcxt = NULL THEN Abort(G)
  ELSE CASE drwrap_get_func(wrapcxt) = "level0" ->
              IF ~(G.lc = 2 \/ user_data = 99) THEN Abort(G)
              ELSE CHECK(G, drwrap_get_retval(G) = 42)
         [] drwrap_get_func(wrapcxt) = "level1" ->
              LET G1 == drwrap_set_retval(G, -4) IN CHECK(G1, G1.ok)
         [] drwrap_get_func(wrapcxt) = "makes_tailcall" -> G
         [] drwrap_get_func(wrapcxt) = "level2" -> G
         [] drwrap_get_func(wrapcxt) = "skipme" -> Abort(G)
         [] drwrap_get_func(wrapcxt) = "postonly" ->
              UnwrapChecked(
                UnwrapChecked(
                  UnwrapChecked(G, "skipme", "wrap_pre", "wrap_post"),
                  "postonly", NULL, "wrap_post"),
                "runlots", NULL, "wrap_post")
         [] drwrap_get_func(wrapcxt) = "runlots" -> G
         [] OTHER -> Abort(G)

\* The TLS field is a ptr_uint_t; the model keeps it an integer, so that a
\* decrement below zero shows as a negative value.
wrap_unwindtest_pre(G, wrapcxt) ==
  IF drwrap_get_func(wrapcxt) # "longdone"
  THEN [G EXCEPT !.tls = @ + 1]
  ELSE G

\* wrap_unwindtest_post doing nothing when called for an abnormal unwind.
wrap_unwindtest_post_normal(G, wrapcxt, user_data) ==
  IF wrapcxt = NULL THEN G
  ELSE IF drwrap_get_func(wrapcxt) = "longdone"
       THEN CHECK(G, G.tls = 0)
       ELSE [G EXCEPT !.tls = @ - 1]

wrap_unwindtest_post(G, wrapcxt, user_data) ==
  IF drwrap_get_func(wrapcxt) = "longdone"
  THEN CHECK(G, G.tls = 0)
  ELSE [G EXCEPT !.tls = @ - 1]

wrap_unwindtest_seh_pre(G, wrapcxt) == wrap_unwindtest_pre(G, wrapcxt)

wrap_unwindtest_seh_post(G, wrapcxt, user_data) ==
  wrap_unwindtest_post(G, wrapcxt, user_data)

\* A client that misuses its wrap contexts: its pre-callback sets and
\* reads the return value, its post-callback sets an argument.
misuse_pre(G, wrapcxt) ==
  LET G1 == drwrap_set_retval(G, -9)
  IN  [G1 EXCEPT !.ud = drwrap_get_retval(G1)]

misuse_post(G, wrapcxt, user_data) == drwrap_set_arg(G, 0, 55)

\* ------------------------------------- the extension: calling callbacks
\* One record of the history: the callback, the function whose call it
\* belongs to, whether it ran on an abnormal unwind, the user data handed
\* to it (pre: the initial value; post: the value received).
Event(cb, func, abn, ud) ==
  [cb |-> cb, func |-> func, abn |-> abn, ud |-> ud]

Note(G, cb, func, abn, ud) ==
  [G EXCEPT !.log = IF G.rec
                    THEN Append(@, [cb |-> cb, func |-> func, abn |-> abn])
                    ELSE @,
            !.cbs = Append(@, Event(cb, func, abn, ud))]

CallPre(G, cb, wrapcxt) ==
  CASE cb = "wrap_pre" -> wrap_pre(G, wrapcxt)
    [] cb = "wrap_unwindtest_pre" -> wrap_unwindtest_pre(G, wrapcxt)
    [] cb = "wrap_unwindtest_seh_pre" -> wrap_unwindtest_seh_pre(G, wrapcxt)
    [] cb = "misuse_pre" -> misuse_pre(G, wrapcxt)
    [] OTHER -> G

CallPost(G, cb, wrapcxt, user_data) ==
  CASE cb = "wrap_post" -> wrap_post(G, wrapcxt, user_data)
    [] cb = "wrap_unwindtest_post" ->
         wrap_unwindtest_post(G, wrapcxt, user_data)
    [] cb = "wrap_unwindtest_seh_post" ->
         wrap_unwindtest_seh_post(G, wrapcxt, user_data)
    [] cb = "misuse_post" -> misuse_post(G, wrapcxt, user_data)
    [] OTHER -> G

\* The pre-callbacks of one call, in list order.  A skip_call ends the
\* walk: the pre-callbacks not yet called are not called.  G.posts
\* collects, per wrap walked, its post-callback and the user data its
\* pre-callback left.
RECURSIVE RunPres(_, _, _)

\* RunPres walking on after a skip_call.
RECURSIVE RunPres_on(_, _, _)
RunPres_on(G, func, wraps) ==
  IF wraps = <<>> \/ G.aborted THEN G
  ELSE LET w  == Head(wraps)
           G0 == [G EXCEPT !.ud = w.user_data, !.where = "pre"]
           G1 == IF w.pre = NULL THEN G0
                 ELSE CallPre(Note(G0, w.pre, func, FALSE, w.user_data),
                              w.pre, func)
           G2 == [G1 EXCEPT !.posts =
                    Append(@, [post |-> w.post, user_data |-> G1.ud])]
       IN  RunPres_on(G2, func, Tail(wraps))

RunPres(G, func, wraps) ==
  IF wraps = <<>> \/ G.aborted \/ G.skip THEN G
  ELSE LET w  == Head(wraps)
           G0 == [G EXCEPT !.ud = w.user_data, !.where = "pre"]
           G1 == IF w.pre = NULL THEN G0
                 ELSE CallPre(Note(G0, w.pre, func, FALSE, w.user_data),
                              w.pre, func)
           G2 == [G1 EXCEPT !.posts =
                    Append(@, [post |-> w.post, user_data |-> G1.ud])]
       IN  RunPres(G2, func, Tail(wraps))

\* The user data a post-callback receives: the value its pre-callback
\* left, unless the user data is not preserved (no-frills), when it is
\* whatever the context holds in its place.
Handed(G, user_data) == IF G.nf THEN G.garbage ELSE user_data

\* The post-callbacks of one wrap-stack frame, in list order.  On an
\* abnormal unwind the wrapcxt is NULL.
RECURSIVE RunPosts(_, _, _, _)
RunPosts(G, func, posts, abnormal) ==
  IF posts = <<>> \/ G.aborted THEN G
  ELSE LET p  == Head(posts)
           ud == Handed(G, p.user_data)
           G0 == [G EXCEPT !.where = "post"]
           G1 == IF p.post = NULL THEN G0
                 ELSE CallPost(Note(G0, p.post, func, abnormal, ud),
                               p.post, IF abnormal THEN NULL ELSE func, ud)
       IN  RunPosts(G1, func, Tail(posts), abnormal)

\* The check at every cache exit: every frame of the wrap-stack whose
\* watermark the stack pointer sp is above has been unwound; its
\* post-callbacks run with the abnormal context and the frame is popped,
\* innermost frame first.
RECURSIVE UnwindCheck(_, _)
UnwindCheck(G, sp) ==
  IF G.ws = <<>> \/ G.aborted \/ ~(Last(G.ws).app_esp < sp) THEN G
  ELSE LET fr == Last(G.ws)
           G1 == RunPosts([G EXCEPT !.ws = Front(@)], fr.func, fr.posts, TRUE)
       IN  UnwindCheck(G1, sp)

\* Entry to the wrapped function func, the stack pointer sp at its return
\* address: the unwind check, the pre-callbacks, and unless the call is
\* skipped a new frame on the wrap-stack.  The caller's stack pointer,
\* sp + 1, is above the watermark of every frame that is no longer live:
\* the slot at sp now holds this call's return address.
drwrap_in_callee(G, func, sp) ==
  LET G0 == UnwindCheck(G, sp + 1)
      G1 == RunPres([G0 EXCEPT !.skip = FALSE, !.posts = <<>>], func,
                    G0.wt[func])
  IN  IF G1.aborted \/ G1.skip THEN G1
      ELSE [G1 EXCEPT !.ws = Append(@, [func |-> func, app_esp |-> sp,
                                        posts |-> G1.posts])]

\* The return of a wrapped call whose frame has the watermark sp: the
\* frames unwound below it first, then the frame's own post-callbacks.
drwrap_after_callee(G, sp) ==
  LET G0 == UnwindCheck(G, sp)
  IN  IF G0.aborted \/ G0.ws = <<>> THEN G0
      ELSE LET fr == Last(G0.ws)
           IN  RunPosts([G0 EXCEPT !.ws = Front(@)], fr.func, fr.posts, FALSE)

\* ------------------------------------------- the client: module events
wrap_addr(G, name, pre, post) ==
  IF G.aborted THEN G
  ELSE LET pre_cb  == IF pre THEN "wrap_pre" ELSE NULL
           post_cb == IF post THEN "wrap_post" ELSE NULL
           G1 == drwrap_wrap(G, name, pre_cb, post_cb)
       IN  IF ~G1.ok THEN Abort(G1)
           ELSE CHECK(G1, drwrap_is_wrapped(G1, name, pre_cb, post_cb))

unwrap_addr(G, addr, pre, post) ==
  IF G.aborted THEN G
  ELSE LET pre_cb  == IF pre THEN "wrap_pre" ELSE NULL
           post_cb == IF post THEN "wrap_post" ELSE NULL
           G1 == drwrap_unwrap(G, addr, pre_cb, post_cb)
       IN  IF ~G1.ok THEN Abort(G1)
           ELSE CHECK(G1, ~drwrap_is_wrapped(G1, addr, pre_cb, post_cb))

wrap_unwindtest_addr(G, name) ==
  IF G.aborted THEN G
  ELSE LET G1 == drwrap_wrap(G, name, "wrap_unwindtest_pre",
                             "wrap_unwindtest_post")
       IN  IF ~G1.ok THEN Abort(G1)
           ELSE CHECK(G1, drwrap_is_wrapped(G1, name, "wrap_unwindtest_pre",
                                            "wrap_unwindtest_post"))

unwrap_unwindtest_addr(G, addr) ==
  IF G.aborted THEN G
  ELSE LET G1 == drwrap_unwrap(G, addr, "wrap_unwindtest_pre",
                               "wrap_unwindtest_post")
       IN  IF ~G1.ok THEN Abort(G1)
           ELSE CHECK(G1, ~drwrap_is_wrapped(G1, addr, "wrap_unwindtest_pre",
                                             "wrap_unwindtest_post"))

\* One SEH wrap of module_load_event, with its CHECK.
wrap_seh(G, addr) ==
  IF G.aborted THEN G
  ELSE LET G1 == drwrap_wrap_ex(G, addr, "wrap_unwindtest_seh_pre",
                                "wrap_unwindtest_seh_post", 0)
       IN  CHECK(G1, G1.ok)

\* One SEH unwrap of module_unload_event; the last one is checked only
\* after the #ifdef block's if.
unwrap_seh(G, addr, checked) ==
  IF G.aborted THEN G
  ELSE LET G1 == drwrap_unwrap(G, addr, "wrap_unwindtest_seh_pre",
                               "wrap_unwindtest_seh_post")
       IN  IF checked THEN CHECK(G1, G1.ok) ELSE G1

\* The order in which the handlers walk the wrapped functions.
WrapOrder ==
  <<"level0", "level1", "level2", "makes_tailcall", "skipme", "preonly",
    "postonly", "runlots">>
UnwrapOrder == <<"level0", "level1", "level2", "makes_tailcall", "preonly">>
LongOrder == <<"long0", "long1", "long2", "long3", "longdone">>

WantsPre(name) == name \notin {"postonly", "runlots"}
WantsPost(name) == name # "preonly"

RECURSIVE WrapAll(_, _)
WrapAll(G, names) ==
  IF names = <<>> THEN G
  ELSE WrapAll(wrap_addr(G, Head(names), WantsPre(Head(names)),
                         WantsPost(Head(names))), Tail(names))

RECURSIVE UnwrapAll(_, _)
UnwrapAll(G, names) ==
  IF names = <<>> THEN G
  ELSE UnwrapAll(unwrap_addr(G, Head(names), WantsPre(Head(names)),
                             WantsPost(Head(names))), Tail(names))

RECURSIVE WrapUnwindAll(_, _)
WrapUnwindAll(G, names) ==
  IF names = <<>> THEN G
  ELSE WrapUnwindAll(wrap_unwindtest_addr(G, Head(names)), Tail(names))

RECURSIVE UnwrapUnwindAll(_, _)
UnwrapUnwindAll(G, names) ==
  IF names = <<>> THEN G
  ELSE UnwrapUnwindAll(unwrap_unwindtest_addr(G, Head(names)), Tail(names))

RECURSIVE WrapSehAll(_, _)
WrapSehAll(G, names) ==
  IF names = <<>> THEN G
  ELSE WrapSehAll(wrap_seh(G, Head(names)), Tail(names))

RECURSIVE UnwrapSehAll(_, _)
UnwrapSehAll(G, names) ==
  IF names = <<>> THEN G
  ELSE UnwrapSehAll(unwrap_seh(G, Head(names), Len(names) > 1), Tail(names))

\* The two replace calls of a handler, each with its CHECK.
ReplaceBoth(G, repl, repl2, override) ==
  LET G1 == drwrap_replace(G, "replaceme", repl, override)
      G2 == CHECK(G1, G1.ok)
      G3 == IF G2.aborted THEN G2
            ELSE drwrap_replace_native(G2, "replaceme2", repl2, override)
  IN  IF G3.aborted THEN G3 ELSE CHECK(G3, G3.ok)

module_load_event(G, win) ==
  LET G0 == [G EXCEPT !.lc = @ + 1]
      G1 == IF G0.lc = 2 THEN drwrap_set_global_flags(G0, TRUE) ELSE G0
      G2 == ReplaceBoth(G1, "replacewith", "replacewith2", FALSE)
      G3 == WrapAll(G2, WrapOrder)
      G4 == WrapUnwindAll(G3, LongOrder)
      G5 == IF G4.aborted THEN G4 ELSE [G4 EXCEPT !.tls = 0]
  IN  IF win /\ G5.lc = 1 THEN WrapSehAll(G5, LongOrder) ELSE G5

module_unload_event(G, win) ==
  LET G2 == ReplaceBoth(G, NULL, NULL, TRUE)
      G3 == UnwrapAll(G2, UnwrapOrder)
      G4 == UnwrapUnwindAll(G3, LongOrder)
      G5 == IF G4.aborted THEN G4 ELSE [G4 EXCEPT !.tls = 0]
      G6 == IF win /\ G5.lc = 1 THEN UnwrapSehAll(G5, LongOrder) ELSE G5
  IN  IF win /\ ~G6.aborted THEN CHECK(G6, G6.ok) ELSE G6

\* ------------------------------------------------------------ the state
\* The record of the last operation:
\*   kind      "init", "load", "unload", "call", "return", "longjmp",
\*             "exit", "replace", "wrap", "unwrap"
\*   func      the function called, returning, replaced or wrapped
\*   engine    the extension ran (and made its unwind check)
\*   ok        the result of the call into the extension; for an event
\*             with callbacks, that no CHECK of the client failed
\*   flagged   a call on the wrap context was refused
\*   skip      the call was skipped
\*   body      the code that runs for the call (NULL if none runs)
\*   cbs       the callbacks invoked, in order
\*   seen      the arguments the caller passed
\*   args      the arguments the function's code runs with
\*   ret       the return value the caller observes
\*   repl, override, prev   drwrap_replace's arguments, and the
\*             replacement in force before the call
\*   pair      drwrap_wrap's or drwrap_unwrap's callbacks
\*   reg       the function's wraps when it was called, in order of
\*             registration
\*   nested    the returning function made calls of its own
NoEvent ==
  [kind |-> "init", func |-> NULL, engine |-> FALSE, ok |-> TRUE,
   flagged |-> FALSE, skip |-> FALSE, body |-> NULL, cbs |-> <<>>, seen |-> <<>>,
   args |-> <<>>, ret |-> 0, repl |-> NULL, override |-> FALSE,
   prev |-> NULL, pair |-> Pair(NULL, NULL), reg |-> <<>>,
   nested |-> FALSE]

\* The values a post-callback may receive when the user data is not
\* preserved.
Garbage == {0, 99}

\* The context before anything is registered.
FreshCtx ==
  [wt |-> [f \in Funcs |-> <<>>], rt |-> [f \in Funcs |-> NULL],
   rnt |-> [f \in Funcs |-> NULL], ro |-> [f \in Funcs |-> <<>>],
   nf |-> FALSE, lc |-> 0, tls |-> 0, aborted |-> FALSE, rec |-> FALSE,
   log |-> <<>>, ws |-> <<>>, ok |-> TRUE, where |-> "none",
   args |-> <<0, 0>>, retval |-> 0, skip |-> FALSE, skipval |-> 0,
   ud |-> 0, flagged |-> FALSE, cbs |-> <<>>, posts |-> <<>>,
   garbage |-> 0]

\* The extension's and the client's state are those of the context G.
StateIs(G) ==
  /\ load_count = G.lc
  /\ no_frills = G.nf
  /\ wrap_table = G.wt
  /\ replace_table = G.rt
  /\ replace_native_table = G.rnt
  /\ reg_order = G.ro
  /\ wrap_stack = G.ws
  /\ tls_val = G.tls
  /\ aborted = G.aborted
  /\ log = G.log

Init ==
  /\ windows \in BOOLEAN
  /\ loaded = FALSE
  /\ StateIs(FreshCtx)
  /\ app_stack = <<>>
  /\ xsp = StackBase
  /\ ev = NoEvent
  /\ recording = FALSE
  /\ script = <<>>
  /\ CoreIdle
  /\ InjectIdle
  /\ MoreIdle

\* The context an operation starts from.
Ctx ==
  [FreshCtx EXCEPT
     !.wt = wrap_table, !.rt = replace_table, !.rnt = replace_native_table,
     !.ro = reg_order, !.nf = no_frills, !.lc = load_count,
     !.tls = tls_val, !.aborted = aborted, !.rec = recording, !.log = log,
     !.ws = wrap_stack]

\* The same, with what stands in for user data that is not preserved.
CtxWith(garbage) == [Ctx EXCEPT !.garbage = garbage]

\* What an operation leaves in the extension's and the client's state.
Commit(G) ==
  /\ Len(G.log) <= MaxLog
  /\ wrap_table' = G.wt
  /\ replace_table' = G.rt
  /\ replace_native_table' = G.rnt
  /\ reg_order' = G.ro
  /\ no_frills' = G.nf
  /\ load_count' = G.lc
  /\ tls_val' = G.tls
  /\ aborted' = G.aborted
  /\ log' = G.log
  /\ wrap_stack' = G.ws

\* The extension's and the client's state stay as they are.
Untouched ==
  UNCHANGED <<wrap_table, replace_table, replace_native_table, reg_order,
              no_frills, load_count, tls_val, aborted, log, wrap_stack>>

\* The function whose code the application is executing.
Running == IF app_stack = <<>> THEN "main" ELSE Last(app_stack).body

\* The replacement in force for func, or NULL.
ReplacementOf(func) ==
  IF replace_table[func] # NULL THEN replace_table[func]
  ELSE replace_native_table[func]

\* What the code of a function returns: the replacement routines return
\* 0 and 1, the library's functions their first argument.
BodyRet(body, args) ==
  CASE body = "replacewith"  -> 0
    [] body = "replacewith2" -> 1
    [] OTHER -> args[1]

\* The application's step op joins the history.
Step(op) ==
  IF recording
  THEN Len(script) < MaxScript /\ script' = Append(script, op)
  ELSE script' = script

\* The stack with frame fr pushed; the caller's frame has made a call.
Pushed(stack, fr) ==
  IF stack = <<>> THEN <<fr>>
  ELSE Append([stack EXCEPT ![Len(stack)].nested = TRUE], fr)

\* ---------------------------------------------------------- the actions
\* The application library is loaded; the load is a system call, so a
\* cache exit with its unwind check comes before the client's handler.
ModuleLoad(garbage) ==
  /\ ~aborted /\ ~loaded /\ load_count < MaxLoads
  /\ LET G == module_load_event(UnwindCheck(CtxWith(garbage), xsp), windows)
     IN  /\ Commit(G)
         /\ ev' = [NoEvent EXCEPT !.kind = "load", !.engine = TRUE,
                                  !.ok = ~G.aborted, !.cbs = G.cbs]
  /\ loaded' = TRUE
  /\ UNCHANGED <<windows, app_stack, xsp, recording, script>>
  /\ UNCHANGED <<core_vars, inject_vars, more_vars>>

ModuleUnload(garbage) ==
  /\ ~aborted /\ loaded /\ app_stack = <<>>
  /\ LET G == module_unload_event(UnwindCheck(CtxWith(garbage), xsp),
                                  windows)
     IN  /\ Commit(G)
         /\ ev' = [NoEvent EXCEPT !.kind = "unload", !.engine = TRUE,
                                  !.ok = ~G.aborted, !.cbs = G.cbs]
  /\ loaded' = FALSE
  /\ UNCHANGED <<windows, app_stack, xsp, recording, script>>
  /\ UNCHANGED <<core_vars, inject_vars, more_vars>>

\* The application calls func with first argument a.  A replaced function
\* runs its replacement; a wrapped function enters the extension; any
\* other function just runs.
Call(func, a, garbage) ==
  /\ ~aborted /\ loaded
  /\ func \in Callees(Running)
  /\ LET sp   == xsp - 1
         args == <<a, 0>>
         repl == ReplacementOf(func)
         code == IF repl # NULL THEN repl ELSE func
         call == [NoEvent EXCEPT !.kind = "call", !.func = func,
                                 !.seen = args, !.reg = reg_order[func]]
         fr   == [func |-> func, body |-> code, args |-> args, sp |-> sp,
                  wrapped |-> FALSE, reg |-> reg_order[func],
                  nested |-> FALSE]
     IN  IF repl # NULL \/ wrap_table[func] = <<>>
         THEN /\ app_stack' = Pushed(app_stack, fr)
              /\ xsp' = sp
              /\ ev' = [call EXCEPT !.body = code, !.args = args]
              /\ Untouched
         ELSE LET G == drwrap_in_callee([CtxWith(garbage) EXCEPT
                                           !.args = args], func, sp)
              IN  /\ Commit(G)
                  /\ IF G.aborted \/ G.skip
                     THEN UNCHANGED <<app_stack, xsp>>
                     ELSE /\ app_stack' =
                               Pushed(app_stack,
                                      [fr EXCEPT !.args = G.args,
                                                 !.wrapped = TRUE])
                          /\ xsp' = sp
                  /\ ev' = [call EXCEPT
                              !.engine = TRUE, !.flagged = G.flagged,
                              !.ok = ~G.aborted, !.skip = G.skip,
                              !.body = IF G.skip \/ G.aborted THEN NULL
                                       ELSE func,
                              !.cbs = G.cbs, !.args = G.args,
                              !.ret = IF G.skip THEN G.skipval ELSE 0]
  /\ Step(<<"call", func>>)
  /\ UNCHANGED <<windows, loaded, recording>>
  /\ UNCHANGED <<core_vars, inject_vars, more_vars>>

\* The innermost function returns to its caller.  The return of a wrapped
\* call reaches the extension's post-call point.
Return(garbage) ==
  /\ ~aborted /\ app_stack # <<>>
  /\ LET fr  == Last(app_stack)
         ret == BodyRet(fr.body, fr.args)
         back == [NoEvent EXCEPT !.kind = "return", !.func = fr.func,
                                 !.body = fr.body, !.args = fr.args,
                                 !.reg = fr.reg, !.nested = fr.nested]
     IN  /\ app_stack' = Front(app_stack)
         /\ xsp' = fr.sp + 1
         /\ IF fr.wrapped
            THEN LET G == drwrap_after_callee([CtxWith(garbage) EXCEPT
                                                 !.retval = ret], fr.sp)
                 IN  /\ Commit(G)
                     /\ ev' = [back EXCEPT !.engine = TRUE,
                                           !.flagged = G.flagged,
                                           !.ok = ~G.aborted,
                                           !.cbs = G.cbs, !.ret = G.retval]
            ELSE /\ ev' = [back EXCEPT !.ret = ret]
                 /\ Untouched
  /\ Step(<<"return", Last(app_stack).func>>)
  /\ UNCHANGED <<windows, loaded, recording>>
  /\ UNCHANGED <<core_vars, inject_vars, more_vars>>

\* The innermost function jumps (longjmp) into the k-th live frame, or
\* out of every frame for k = 0, bypassing the returns in between.
Longjmp(k) ==
  /\ ~aborted /\ app_stack # <<>>
  /\ Running \in Jumpers
  /\ k \in 0..(Len(app_stack) - 1)
  /\ app_stack' = SubSeq(app_stack, 1, k)
  /\ xsp' = IF k = 0 THEN StackBase ELSE app_stack[k].sp
  /\ ev' = [NoEvent EXCEPT !.kind = "longjmp", !.func = Running]
  /\ Step(<<"longjmp", IF k = 0 THEN "main" ELSE app_stack[k].func>>)
  /\ Untouched
  /\ UNCHANGED <<windows, loaded, recording>>
  /\ UNCHANGED <<core_vars, inject_vars, more_vars>>

\* A cache exit that finds unwound frames on the wrap-stack.
CacheExit(garbage) ==
  /\ ~aborted
  /\ wrap_stack # <<>> /\ Last(wrap_stack).app_esp < xsp
  /\ LET G == UnwindCheck(CtxWith(garbage), xsp)
     IN  /\ Commit(G)
         /\ ev' = [NoEvent EXCEPT !.kind = "exit", !.engine = TRUE,
                                  !.ok = ~G.aborted, !.cbs = G.cbs]
  /\ UNCHANGED <<windows, loaded, app_stack, xsp, recording, script>>
  /\ UNCHANGED <<core_vars, inject_vars, more_vars>>

\* The client calls drwrap_replace for replaceme outside the module
\* events, while the application is outside the library.
ClientReplace(repl, override) ==
  /\ ~aborted /\ app_stack = <<>>
  /\ LET G == drwrap_replace(Ctx, "replaceme", repl, override)
     IN  /\ Commit(G)
         /\ ev' = [NoEvent EXCEPT !.kind = "replace", !.func = "replaceme",
                                  !.ok = G.ok, !.repl = repl,
                                  !.override = override,
                                  !.prev = replace_table["replaceme"]]
  /\ UNCHANGED <<windows, loaded, app_stack, xsp, recording, script>>
  /\ UNCHANGED <<core_vars, inject_vars, more_vars>>

\* The client wraps or unwraps func with a callback pair outside the
\* module events, while the application is outside the library.
ClientWrap(func, pre, post) ==
  /\ ~aborted /\ app_stack = <<>>
  /\ LET G == drwrap_wrap(Ctx, func, pre, post)
     IN  /\ Commit(G)
         /\ ev' = [NoEvent EXCEPT
                     !.kind = "wrap", !.func = func, !.ok = G.ok,
                     !.pair = Pair(pre, post),
                     !.prev = IF drwrap_is_wrapped(Ctx, func, pre, post)
                              THEN "wrapped" ELSE NULL]
  /\ UNCHANGED <<windows, loaded, app_stack, xsp, recording, script>>
  /\ UNCHANGED <<core_vars, inject_vars, more_vars>>

ClientUnwrap(func, pre, post) ==
  /\ ~aborted /\ app_stack = <<>>
  /\ LET G == drwrap_unwrap(Ctx, func, pre, post)
     IN  /\ Commit(G)
         /\ ev' = [NoEvent EXCEPT
                     !.kind = "unwrap", !.func = func, !.ok = G.ok,
                     !.pair = Pair(pre, post),
                     !.prev = IF drwrap_is_wrapped(Ctx, func, pre, post)
                              THEN "wrapped" ELSE NULL]
  /\ UNCHANGED <<windows, loaded, app_stack, xsp, recording, script>>
  /\ UNCHANGED <<core_vars, inject_vars, more_vars>>

\* The first arguments the application passes to func.
ArgsFor(func) ==
  IF func \in {"level0", "level1", "skipme"} THEN ArgVals ELSE {0}

\* What a call may find in place of the user data.
GarbageNow == IF no_frills THEN Garbage ELSE {0}

\* The wraps the client adds and removes outside the module events.
ClientFuncs == {"skipme"}
ClientPairs == {Pair("wrap_pre", NULL)}

Next ==
  \/ \E g \in GarbageNow : ModuleLoad(g)
  \/ \E g \in GarbageNow : ModuleUnload(g)
  \/ \E func \in Funcs : \E a \in ArgsFor(func) : \E g \in GarbageNow :
       Call(func, a, g)
  \/ \E g \in GarbageNow : Return(g)
  \/ \E k \in 0..3 : Longjmp(k)
  \/ \E g \in GarbageNow : CacheExit(g)
  \/ \E repl \in Replacements \cup {NULL} : \E o \in BOOLEAN :
       ClientReplace(repl, o)
  \/ \E func \in ClientFuncs : \E p \in ClientPairs :
       ClientWrap(func, p.pre, p.post)
  \/ \E func \in ClientFuncs : \E p \in ClientPairs :
       ClientUnwrap(func, p.pre, p.post)

Spec == Init /\ [][Next]_vars

\* ------------------------------------------- the longjmp test, recorded
\* The state after the first load of the library, with the histories on;
\* from there the application runs the long functions only.
InitLong ==
  /\ windows \in BOOLEAN
  /\ loaded = TRUE
  /\ StateIs(module_load_event(FreshCtx, windows))
  /\ app_stack = <<>>
  /\ xsp = StackBase
  /\ ev = [NoEvent EXCEPT !.kind = "load", !.engine = TRUE]
  /\ recording = TRUE
  /\ script = <<>>
  /\ CoreIdle
  /\ InjectIdle
  /\ MoreIdle

NextLong ==
  \/ \E func \in LongFuncs : \E g \in GarbageNow : Call(func, 0, g)
  \/ \E g \in GarbageNow : Return(g)
  \/ \E k \in 0..3 : Longjmp(k)
  \/ \E g \in GarbageNow : CacheExit(g)

SpecLong == InitLong /\ [][NextLong]_vars

\* ------------------------------------------- the misusing client
\* The misusing client's load handler: level1 is wrapped as the test
\* client wraps it and then with the misusing pair, level2 with the
\* misusing pair alone.
misuse_load_event(G) ==
  LET G1 == drwrap_wrap(G, "level1", "wrap_pre", "wrap_post")
      G2 == drwrap_wrap(G1, "level1", "misuse_pre", "misuse_post")
  IN  drwrap_wrap(G2, "level2", "misuse_pre", "misuse_post")

MisuseLoad ==
  /\ ~aborted /\ ~loaded
  /\ LET G == misuse_load_event(UnwindCheck(Ctx, xsp))
     IN  /\ Commit(G)
         /\ ev' = [NoEvent EXCEPT !.kind = "load", !.engine = TRUE,
                                  !.ok = G.ok, !.cbs = G.cbs]
  /\ loaded' = TRUE
  /\ UNCHANGED <<windows, app_stack, xsp, recording, script>>
  /\ UNCHANGED <<core_vars, inject_vars, more_vars>>

\* The functions the application calls under the misusing client.
MisuseFuncs == {"level0", "level1", "level2", "preonly"}

InitMisuse == Init

\* The misusing client also wraps and unwraps level0 while the
\* application is outside the library.
NextMisuse ==
  \/ MisuseLoad
  \/ \E func \in MisuseFuncs : \E a \in ArgVals : Call(func, a, 0)
  \/ Return(0)
  \/ ClientWrap("level0", "misuse_pre", "misuse_post")
  \/ ClientUnwrap("level0", "misuse_pre", "misuse_post")

SpecMisuse == InitMisuse /\ [][NextMisuse]_vars

\* --------------------------------- the core: detach and os_terminate
TerminateTypes ==
  { {"TERMINATE_PROCESS"}, {"TERMINATE_THREAD"},
    {"TERMINATE_PROCESS", "TERMINATE_CLEANUP"},
    {"TERMINATE_THREAD", "TERMINATE_CLEANUP"} }

\* Thread t is executing engine code.
CoreRunning(t) == dr.process = "alive" /\ thr[t].st = "running"

get_num_threads == Cardinality({t \in Tids : thr[t].st # "dead"})

\* translate_context: the context becomes the application's; a native
\* thread's context comes right back.
translate_context(tr) == [tr EXCEPT !.xip = "app", !.translated = TRUE]

\* Returned ending the process whenever detach_helper comes back to
\* os_terminate.
Returned_all(t, T, D, step) ==
  IF T.via = "os_terminate"
  THEN /\ thr' = [thr EXCEPT ![t] = [T EXCEPT !.st = "dead",
                                              !.at = "none"]]
       /\ dr' = [D EXCEPT !.process = "terminated",
                          !.last = <<step, t>>]
  ELSE /\ thr' = [thr EXCEPT ![t] = [T EXCEPT !.at = "none",
                                              !.via = "none",
                                              !.detach_type = "none"]]
       /\ dr' = [D EXCEPT !.last = <<step, t>>]

\* detach_helper returns in thread t, whose record is T, leaving the
\* engine's state D.  A nudge thread goes on under the engine;
\* os_terminate goes on with TERMINATE_THREAD: it ends the process if
\* this is the only thread and the thread otherwise.
Returned(t, T, D, step) ==
  IF T.via = "os_terminate"
  THEN LET exit_process == get_num_threads = 1 /\ ~D.dynamo_exited
       IN  /\ thr' = [thr EXCEPT ![t] = [T EXCEPT !.st = "dead",
                                                  !.at = "none"]]
           /\ dr' = [D EXCEPT
                       !.process = IF exit_process THEN "terminated" ELSE @,
                       !.last = <<step, t>>]
  ELSE /\ thr' = [thr EXCEPT ![t] = [T EXCEPT !.at = "none",
                                              !.via = "none",
                                              !.detach_type = "none"]]
       /\ dr' = [D EXCEPT !.last = <<step, t>>]

\* detach_helper going on whatever dynamo_detaching_flag holds.
detach_helper_nocas(t, T) ==
  IF ~dr.dynamo_initialized \/ dr.dynamo_exited
  THEN Returned(t, T, dr, "uninitialized")
  ELSE /\ thr' = [thr EXCEPT ![t] = [T EXCEPT !.at = "flagged"]]
       /\ dr' = [dr EXCEPT !.dynamo_detaching_flag = "LOCK_SET_STATE",
                           !.unprotected = @ + 1,
                           !.doing_detach = TRUE,
                           !.last = <<"enter", t>>]

\* detach_helper up to doing_detach = true, in thread t with record T.
detach_helper(t, T) ==
  IF ~dr.dynamo_initialized \/ dr.dynamo_exited
  THEN Returned(t, T, dr, "uninitialized")
  ELSE IF dr.dynamo_detaching_flag # "LOCK_FREE_STATE"
  THEN Returned(t, T, dr, "busy")
  ELSE /\ thr' = [thr EXCEPT ![t] = [T EXCEPT !.at = "flagged"]]
       /\ dr' = [dr EXCEPT !.dynamo_detaching_flag = "LOCK_SET_STATE",
                           !.unprotected = @ + 1,
                           !.doing_detach = TRUE,
                           !.last = <<"enter", t>>]

\* A detach nudge: generic_nudge_handler calls detach_helper.
Nudge(t) ==
  /\ CoreRunning(t) /\ thr[t].at = "none"
  /\ thr[t].under_dynamo_control = "true"
  /\ detach_helper(t, [thr[t] EXCEPT !.via = "nudge",
                                     !.detach_type = "DETACH_NORMAL_TYPE"])
  /\ UNCHANGED <<wrap_vars, inject_vars, more_vars>>

\* DetachCheck leaving dynamo_detaching_flag set when it refuses.
DetachCheck_held(t) ==
  /\ CoreRunning(t) /\ thr[t].at = "flagged"
  /\ IF ~dr.internal_detach /\ ~dr.allow_detach
     THEN Returned(t, thr[t],
                   [dr EXCEPT !.doing_detach = FALSE,
                              !.unprotected = @ - 1,
                              !.syslog = TRUE],
                   "denied")
     ELSE /\ thr' = [thr EXCEPT ![t].at = "paused"]
          /\ dr' = [dr EXCEPT !.init_apc_go_native_pause = TRUE,
                              !.last = <<"paused", t>>]
  /\ UNCHANGED <<wrap_vars, inject_vars, more_vars>>

\* detach_helper: the check of the allow_detach option.
DetachCheck(t) ==
  /\ CoreRunning(t) /\ thr[t].at = "flagged"
  /\ IF ~dr.internal_detach /\ ~dr.allow_detach
     THEN Returned(t, thr[t],
                   [dr EXCEPT !.doing_detach = FALSE,
                              !.unprotected = @ - 1,
                              !.dynamo_detaching_flag = "LOCK_FREE_STATE",
                              !.syslog = TRUE],
                   "denied")
     ELSE /\ thr' = [thr EXCEPT ![t].at = "paused"]
          /\ dr' = [dr EXCEPT !.init_apc_go_native_pause = TRUE,
                              !.last = <<"paused", t>>]
  /\ UNCHANGED <<wrap_vars, inject_vars, more_vars>>

\* DetachGoNative leaving init_apc_go_native_pause clear.
DetachGoNative_unpaused(t) ==
  /\ CoreRunning(t) /\ thr[t].at = "paused"
  /\ thr' = [thr EXCEPT ![t].at = "allowed"]
  /\ dr' = [dr EXCEPT !.init_apc_go_native_pause = FALSE,
                      !.init_apc_go_native = TRUE,
                      !.last = <<"allowed", t>>]
  /\ UNCHANGED <<wrap_vars, inject_vars, more_vars>>

\* detach_helper: init_apc_go_native is set, after the pause.
DetachGoNative(t) ==
  /\ CoreRunning(t) /\ thr[t].at = "paused"
  /\ thr' = [thr EXCEPT ![t].at = "allowed"]
  /\ dr' = [dr EXCEPT !.init_apc_go_native = TRUE,
                      !.last = <<"allowed", t>>]
  /\ UNCHANGED <<wrap_vars, inject_vars, more_vars>>

\* The other threads suspended by t; a thread under control is found in
\* the code cache or in the engine (loc), a native one in the
\* application.
Suspended(t, loc) ==
  [u \in Tids |->
     IF u # t /\ thr[u].st = "running"
     THEN [thr[u] EXCEPT
             !.st = "suspended",
             !.xip = IF thr[u].under_dynamo_control = "true" THEN loc[u]
                     ELSE "app"]
     ELSE thr[u]]

\* DetachSynch coming back without thread_initexit_lock.
DetachSynch_one(t, loc) ==
  /\ CoreRunning(t) /\ thr[t].at = "allowed"
  /\ dr.all_threads_synch_lock = NULL /\ dr.thread_initexit_lock = NULL
  /\ thr' = [Suspended(t, loc) EXCEPT ![t].at = "synched"]
  /\ dr' = [dr EXCEPT !.all_threads_synch_lock = t,
                      !.last = <<"synched", t>>]
  /\ UNCHANGED <<wrap_vars, inject_vars, more_vars>>

\* detach_helper: synch_with_all_threads, which takes the two locks and
\* suspends every other thread at a safe location.
DetachSynch(t, loc) ==
  /\ CoreRunning(t) /\ thr[t].at = "allowed"
  /\ dr.all_threads_synch_lock = NULL /\ dr.thread_initexit_lock = NULL
  /\ thr' = [Suspended(t, loc) EXCEPT ![t].at = "synched"]
  /\ dr' = [dr EXCEPT !.all_threads_synch_lock = t,
                      !.thread_initexit_lock = t,
                      !.last = <<"synched", t>>]
  /\ UNCHANGED <<wrap_vars, inject_vars, more_vars>>

\* detach_helper: the image entry trampoline, the ntdll patches and the
\* memory protections are taken back.
DetachUnhook(t) ==
  /\ CoreRunning(t) /\ thr[t].at = "synched"
  /\ thr' = [thr EXCEPT ![t].at = "unhooked"]
  /\ dr' = [dr EXCEPT
              !.image_entry_hooked =
                 IF \E u \in Tids :
                      /\ thr[u].st = "suspended"
                      /\ thr[u].under_dynamo_control = "UNDER_DYN_HACK"
                 THEN FALSE ELSE @,
              !.intercepted = FALSE,
              !.reverted = TRUE,
              !.last = <<"unhooked", t>>]
  /\ UNCHANGED <<wrap_vars, inject_vars, more_vars>>

\* detach_helper: the threads waiting at the APC initialization are let
\* go native, and the loop over the suspended threads starts.
DetachRelease(t) ==
  /\ CoreRunning(t) /\ thr[t].at = "unhooked"
  /\ thr' = [thr EXCEPT ![t].at = "translating"]
  /\ dr' = [dr EXCEPT !.init_apc_go_native_pause = FALSE,
                      !.i = 1,
                      !.last = <<"released", t>>]
  /\ UNCHANGED <<wrap_vars, inject_vars, more_vars>>

\* ResumedNative writing the context back as it was read.
ResumedNative_raw(tr) ==
  LET cxt == IF tr.under_dynamo_control = "UNDER_DYN_HACK" THEN tr
             ELSE [tr EXCEPT !.retaddr = "app", !.written = TRUE]
  IN  [cxt EXCEPT !.st = IF tr.client THEN "dead" ELSE "resumed"]

\* One thread of the loop "translate current context": its context is
\* translated and written back unless it lost control at a callback, a
\* clobbered native_exec return address is restored, a client-owned
\* thread is terminated, and the thread is resumed.
ResumedNative(tr) ==
  LET cxt == IF tr.under_dynamo_control = "UNDER_DYN_HACK" THEN tr
             ELSE [translate_context(tr) EXCEPT
                     !.retaddr = "app", !.written = TRUE]
  IN  [cxt EXCEPT !.st = IF tr.client THEN "dead" ELSE "resumed"]

DetachThread(t) ==
  /\ CoreRunning(t) /\ thr[t].at = "translating"
  /\ dr.i <= Len(ThreadOrder)
  /\ LET u == ThreadOrder[dr.i]
     IN  thr' = IF u = t \/ thr[u].st # "suspended" THEN thr
                ELSE [thr EXCEPT ![u] = ResumedNative(thr[u])]
  /\ dr' = [dr EXCEPT !.i = @ + 1, !.last = <<"thread", t>>]
  /\ UNCHANGED <<wrap_vars, inject_vars, more_vars>>

\* detach_helper after the loop: DETACH_BAD_STATE_NO_CLEANUP ends the
\* thread at once; otherwise the synch is ended, the engine exits and
\* the thread ends.
DetachFinish(t) ==
  /\ CoreRunning(t) /\ thr[t].at = "translating"
  /\ dr.i > Len(ThreadOrder)
  /\ thr' = [thr EXCEPT ![t].st = "dead", ![t].at = "none"]
  /\ dr' = IF thr[t].detach_type = "DETACH_BAD_STATE_NO_CLEANUP"
           THEN [dr EXCEPT !.last = <<"detached", t>>]
           ELSE [dr EXCEPT !.all_threads_synch_lock = NULL,
                           !.thread_initexit_lock = NULL,
                           !.dynamo_initialized = FALSE,
                           !.last = <<"detached", t>>]
  /\ UNCHANGED <<wrap_vars, inject_vars, more_vars>>

\* detach_internal: internal_detach is set before the nudge is sent.
DetachInternal(t) ==
  /\ CoreRunning(t) /\ thr[t].at = "none"
  /\ thr[t].under_dynamo_control = "true"
  /\ ~dr.internal_detach
  /\ dr' = [dr EXCEPT !.internal_detach = TRUE,
                      !.last = <<"detach_internal", t>>]
  /\ UNCHANGED thr
  /\ UNCHANGED <<wrap_vars, inject_vars, more_vars>>

\* The dynamic option allow_detach is switched on.
OptionUpdate ==
  /\ dr.process = "alive" /\ ~dr.allow_detach
  /\ dr' = [dr EXCEPT !.allow_detach = TRUE, !.last = <<"option", NULL>>]
  /\ UNCHANGED thr
  /\ UNCHANGED <<wrap_vars, inject_vars, more_vars>>

\* os_terminate coming back to its caller when it is to end one thread
\* of several.
os_terminate_back(t, terminate_type) ==
  LET T == [thr[t] EXCEPT !.term = terminate_type]
      killed == [thr EXCEPT ![t] = [T EXCEPT !.st = "dead"]]
  IN  IF terminate_type = {"TERMINATE_PROCESS"}
      THEN IF dr.internal_detach_mask # "none"
           THEN detach_helper(t,
                  [T EXCEPT
                     !.via = "os_terminate",
                     !.detach_type =
                        IF dr.internal_detach_mask =
                             "DETACH_ON_TERMINATE_NO_CLEAN"
                        THEN "DETACH_BAD_STATE_NO_CLEANUP"
                        ELSE "DETACH_BAD_STATE"])
           ELSE /\ thr' = killed
                /\ dr' = [dr EXCEPT !.process = "terminated",
                                    !.last = <<"os_terminate", t>>]
      ELSE LET exit_process ==
                 IF "TERMINATE_THREAD" \in terminate_type
                 THEN get_num_threads = 1 /\ ~dr.dynamo_exited
                 ELSE TRUE
           IN  /\ thr' = IF exit_process THEN killed
                         ELSE [thr EXCEPT ![t] = T]
               /\ dr' = [dr EXCEPT
                           !.process = IF exit_process THEN "terminated"
                                       ELSE @,
                           !.last = <<"os_terminate", t>>]

\* os_terminate in thread t.
os_terminate(t, terminate_type) ==
  LET T == [thr[t] EXCEPT !.term = terminate_type]
      killed == [thr EXCEPT ![t] = [T EXCEPT !.st = "dead"]]
  IN  IF terminate_type = {"TERMINATE_PROCESS"}
      THEN IF dr.internal_detach_mask # "none"
           THEN detach_helper(t,
                  [T EXCEPT
                     !.via = "os_terminate",
                     !.detach_type =
                        IF dr.internal_detach_mask =
                             "DETACH_ON_TERMINATE_NO_CLEAN"
                        THEN "DETACH_BAD_STATE_NO_CLEANUP"
                        ELSE "DETACH_BAD_STATE"])
           ELSE /\ thr' = killed
                /\ dr' = [dr EXCEPT !.process = "terminated",
                                    !.last = <<"os_terminate", t>>]
      ELSE LET exit_process ==
                 IF "TERMINATE_THREAD" \in terminate_type
                 THEN get_num_threads = 1 /\ ~dr.dynamo_exited
                 ELSE TRUE
           IN  /\ thr' = killed
               /\ dr' = [dr EXCEPT
                           !.process = IF exit_process THEN "terminated"
                                       ELSE @,
                           !.last = <<"os_terminate", t>>]

OsTerminate(t, terminate_type) ==
  /\ CoreRunning(t) /\ thr[t].at = "none"
  /\ thr[t].under_dynamo_control = "true"
  /\ os_terminate(t, terminate_type)
  /\ UNCHANGED <<wrap_vars, inject_vars, more_vars>>

\* Another use of synch_with_all_threads (a flush), and its end.
SynchAll(t) ==
  /\ CoreRunning(t) /\ thr[t].at = "none"
  /\ thr[t].under_dynamo_control = "true"
  /\ dr.all_threads_synch_lock = NULL /\ dr.thread_initexit_lock = NULL
  /\ thr' = [u \in Tids |->
               IF u = t THEN [thr[u] EXCEPT !.at = "synchall"]
               ELSE IF thr[u].st = "running"
               THEN [thr[u] EXCEPT !.st = "suspended"]
               ELSE thr[u]]
  /\ dr' = [dr EXCEPT !.all_threads_synch_lock = t,
                      !.thread_initexit_lock = t,
                      !.last = <<"synchall", t>>]
  /\ UNCHANGED <<wrap_vars, inject_vars, more_vars>>

EndSynch(t) ==
  /\ CoreRunning(t) /\ thr[t].at = "synchall"
  /\ thr' = [u \in Tids |->
               IF u = t THEN [thr[u] EXCEPT !.at = "none"]
               ELSE IF thr[u].st = "suspended"
               THEN [thr[u] EXCEPT !.st = "running"]
               ELSE thr[u]]
  /\ dr' = [dr EXCEPT !.all_threads_synch_lock = NULL,
                      !.thread_initexit_lock = NULL,
                      !.last = <<"end_synch", t>>]
  /\ UNCHANGED <<wrap_vars, inject_vars, more_vars>>

\* The wrap extension at rest.
WrapIdle ==
  /\ windows = FALSE
  /\ loaded = FALSE
  /\ StateIs(FreshCtx)
  /\ app_stack = <<>>
  /\ xsp = StackBase
  /\ ev = NoEvent
  /\ recording = FALSE
  /\ script = <<>>

\* At most one thread lost control at a callback return; the image
\* entry point is still hooked if one did.
InitDetach ==
  /\ WrapIdle
  /\ InjectIdle
  /\ MoreIdle
  /\ \E kinds \in [Tids -> ThreadKinds] :
       /\ Cardinality({t \in Tids : kinds[t].under_dynamo_control =
                                      "UNDER_DYN_HACK"}) <= 1
       /\ thr = [t \in Tids |-> ThreadOf(kinds[t])]
       /\ \E a \in BOOLEAN : \E m \in DetachMasks :
            dr = [EngineOf(a, m) EXCEPT
                    !.image_entry_hooked =
                       \E t \in Tids : kinds[t].under_dynamo_control =
                                         "UNDER_DYN_HACK"]

NextDetach ==
  \/ \E t \in Tids : Nudge(t)
  \/ \E t \in Tids : DetachCheck(t)
  \/ \E t \in Tids : \E loc \in [Tids -> {"fcache", "dynamo"}] :
       DetachSynch(t, loc)
  \/ \E t \in Tids : DetachGoNative(t)
  \/ \E t \in Tids : DetachUnhook(t)
  \/ \E t \in Tids : DetachRelease(t)
  \/ \E t \in Tids : DetachThread(t)
  \/ \E t \in Tids : DetachFinish(t)
  \/ \E t \in Tids : DetachInternal(t)
  \/ OptionUpdate
  \/ \E t \in Tids : \E ty \in TerminateTypes : OsTerminate(t, ty)
  \/ \E t \in Tids : SynchAll(t)
  \/ \E t \in Tids : EndSynch(t)

SpecDetach == InitDetach /\ [][NextDetach]_vars

\* ------------------------------------- the injector: inject_ptrace
\* injectee_run_get_retval: the shellcode is written over the page of
\* the injectee's PC and run up to its int3; it leaves its PC past the
\* shellcode, the system call's result in the return value register and
\* pushed bytes below the stack pointer.  Then the original code and
\* the registers are put back.  If the injectee does not reach the
\* break, the routine returns with the shellcode in place.
injectee_run_get_retval_kept(I, result, pushed, code_size, broke) ==
  LET regs == I.regs
      pc   == ALIGN_BACKWARD(regs.pc, PAGE_SIZE)
      ran  == [I EXCEPT !.code = "shell",
                        !.regs = [regs EXCEPT !.pc = pc + code_size,
                                              !.sp = @ - pushed,
                                              !.ax = result]]
  IN  IF ~broke THEN [ran EXCEPT !.retval = -1]
      ELSE [ran EXCEPT !.retval = ran.regs.ax, !.code = "orig"]

injectee_run_get_retval(I, result, pushed, code_size, broke) ==
  LET regs == I.regs
      pc   == ALIGN_BACKWARD(regs.pc, PAGE_SIZE)
      ran  == [I EXCEPT !.code = "shell",
                        !.regs = [regs EXCEPT !.pc = pc + code_size,
                                              !.sp = @ - pushed,
                                              !.ax = result]]
  IN  IF ~broke THEN [ran EXCEPT !.retval = -1]
      ELSE [ran EXCEPT !.retval = ran.regs.ax, !.code = "orig",
                       !.regs = regs]

\* user_regs_to_mc: the PC, the stack pointer and the general-purpose
\* registers are copied; the flags are not, and stay as memset left
\* them.
user_regs_to_mc(mc, regs) ==
  [mc EXCEPT !.pc = regs.pc, !.sp = regs.sp, !.ax = regs.ax]

\* strncpy into a buffer of n bytes, then NULL_TERMINATE_BUFFER.
strncpy_terminated(str, n) ==
  IF Len(str) < n THEN str ELSE SubSeq(str, 1, n - 1)

\* sizeof(ptrace_stack_args_t): argc, the machine context and the home
\* directory buffer.
sizeof_args(x64) ==
  ALIGN_FORWARD(PtrSize(x64) * (1 + Cardinality(RegFields)) + MAXIMUM_PATH,
                PtrSize(x64))

Returns(I, ret) == [I EXCEPT !.at = "returned", !.ret = ret]

InjectStep(I) ==
  /\ inj' = I
  /\ UNCHANGED <<wrap_vars, core_vars, kid, more_vars>>

\* inject_ptrace: PTRACE_ATTACH and the wait for SIGSTOP.
PtraceAttach(ok) ==
  /\ inj.at = "start"
  /\ InjectStep(IF ok THEN [inj EXCEPT !.at = "attached"]
                ELSE Returns(inj, "false"))

\* inject_ptrace: a child the injector created is walked across its
\* execve; it stops with the registers of the new image.
WalkExec(regs, ok) ==
  /\ inj.at = "attached"
  /\ IF inj.pipe_fd # 0
     THEN IF ok
          THEN InjectStep([inj EXCEPT !.pipe_fd = 0, !.regs = regs,
                                      !.stopped = regs, !.at = "stopped"])
          ELSE InjectStep(Returns([inj EXCEPT !.pipe_fd = 0], "false"))
     ELSE /\ regs = inj.regs
          /\ ok
          /\ InjectStep([inj EXCEPT !.stopped = inj.regs,
                                    !.at = "stopped"])

\* inject_ptrace: injectee_open of the library; the path is pushed by a
\* call in the shellcode.
InjecteeOpen(dr_fd, broke) ==
  /\ inj.at = "stopped"
  /\ LET I == injectee_run_get_retval(inj, dr_fd, PtrSize(inj.x64), 64,
                                      broke)
     IN  InjectStep(IF I.retval < 0 THEN Returns(I, "false")
                    ELSE [I EXCEPT !.at = "opened"])

\* inject_ptrace: elf_loader_map_phdrs with injectee_map_file, an mmap
\* in the injectee, and the entry point of the mapped library.
MapPhdrs(injected_base, entry, broke) ==
  /\ inj.at = "opened"
  /\ LET I == injectee_run_get_retval(inj, injected_base, 0, 32, broke)
     IN  InjectStep(IF I.retval <= 0 THEN Returns(I, "false")
                    ELSE [I EXCEPT !.at = "mapped",
                                   !.injected_dr_start = entry])

\* inject_ptrace: the injection context is built from the injectee's
\* registers and "pushed" onto its stack; the stack pointer is moved to
\* it and the PC to the library's entry.
PushArgs ==
  /\ inj.at = "mapped"
  /\ LET regs == inj.regs
         args == [argc |-> "ARGC_PTRACE_SENTINEL",
                  mc |-> user_regs_to_mc(NoRegs, regs),
                  home_dir |-> strncpy_terminated(inj.HOME, MAXIMUM_PATH)]
         sp1  == regs.sp - REDZONE_SIZE(inj.x64)
         sp2  == sp1 - sizeof_args(inj.x64)
         sp3  == ALIGN_BACKWARD(sp2, REGPARM_END_ALIGN(inj.x64))
     IN  InjectStep([inj EXCEPT
                       !.block = <<[at |-> sp3, args |-> args,
                                    len |-> sizeof_args(inj.x64)]>>,
                       !.regs = [regs EXCEPT !.sp = sp3,
                                           !.pc = inj.injected_dr_start],
                       !.signal = NoSignal,
                       !.loop = "cont",
                       !.at = "pushed"])

\* inject_ptrace: the injectee is continued into the library's entry,
\* and the pending signal is delivered to it; r < 0 returns false.
Continue_nosignal(ok) ==
  /\ inj.at = "pushed"
  /\ inj.loop = "cont"
  /\ InjectStep(IF ok
                  THEN [inj EXCEPT !.conts = Append(@, NoSignal),
                                   !.loop = "wait"]
                  ELSE Returns(inj, "false"))

Continue(ok) ==
  /\ inj.at = "pushed"
  /\ inj.loop = "cont"
  /\ InjectStep(IF ok
                  THEN [inj EXCEPT !.conts = Append(@, inj.signal),
                                   !.loop = "wait"]
                  ELSE Returns(inj, "false"))

\* inject_ptrace: waitpid for the continued injectee; a failure or a
\* status that is not a stop returns false; else signal =
\* WSTOPSIG(status), and the loop goes round while it is SIGSEGV.
WaitStopped(status) ==
  /\ inj.at = "pushed"
  /\ inj.loop = "wait"
  /\ status.kind = "WIFSTOPPED" /\ status.sig = "SIGSEGV"
       => Len(inj.stops) < MaxFaults
  /\ InjectStep(
       IF status.r < 0 \/ status.kind # "WIFSTOPPED"
         THEN Returns(inj, "false")
         ELSE [inj EXCEPT !.signal = status.sig,
                          !.stops = Append(@, status.sig),
                          !.loop = IF status.sig = "SIGSEGV" THEN "cont"
                                   ELSE "out"])

\* inject_ptrace: after the loop, SIGTRAP says that the engine has
\* initialised; any other signal is an unexpected_trace_event.
Trapped ==
  /\ inj.at = "pushed"
  /\ inj.loop = "out"
  /\ InjectStep(Returns(inj, IF inj.signal = "SIGTRAP" THEN "true"
                              ELSE "false"))

InitInject ==
  /\ WrapIdle
  /\ CoreIdle
  /\ MoreIdle
  /\ kid = [options |-> [follow_children |-> FALSE,
                         follow_explicit_children |-> FALSE,
                         follow_systemwide |-> FALSE],
            child |-> <<>>, children |-> 0]
  /\ \E x64 \in BOOLEAN : \E pipe_fd \in {0, 5} : \E regs \in StopRegs :
       \E home \in Homes :
         inj = InjecteeOf(x64, pipe_fd, regs, home)

NextInject ==
  \/ \E ok \in BOOLEAN : PtraceAttach(ok)
  \/ \E regs \in StopRegs : \E ok \in BOOLEAN : WalkExec(regs, ok)
  \/ \E dr_fd \in {-2, 3} : \E broke \in BOOLEAN : InjecteeOpen(dr_fd, broke)
  \/ \E base \in {0, 65536} : \E entry \in EntryVals : \E broke \in BOOLEAN :
       MapPhdrs(base, entry, broke)
  \/ PushArgs
  \/ \E ok \in BOOLEAN : Continue(ok)
  \/ \E status \in WaitStatuses : WaitStopped(status)
  \/ Trapped

SpecInject == InitInject /\ [][NextInject]_vars

\* ------------------------------------------- the core: child processes
\* What systemwide_should_inject can say of a process: INJECT_TRUE and
\* INJECT_EXCLUDED never together.
InjectSettings ==
  { m \in SUBSET {"INJECT_TRUE", "INJECT_EXCLUDED", "INJECT_EXPLICIT"} :
      ~({"INJECT_TRUE", "INJECT_EXCLUDED"} \subseteq m) }

TEST(flag, mask) == flag \in mask

TESTALL(flags, mask) == flags \subseteq mask

\* should_inject_into_process with -follow_children's exclusion check
\* left out.
should_inject_into_process_all(options, should_inject, enabled) ==
  LET follow == options.follow_children
                  \/ options.follow_explicit_children
                  \/ options.follow_systemwide
      inject1 == options.follow_systemwide
                   /\ TEST("INJECT_TRUE", should_inject)
      inject2 == inject1
                   \/ (options.follow_explicit_children
                         /\ TESTALL({"INJECT_EXPLICIT", "INJECT_TRUE"},
                                    should_inject))
      inject3 == IF ~inject2 /\ options.follow_children
                 THEN ~(TEST("INJECT_TRUE", should_inject) /\ enabled
                          /\ ~TEST("INJECT_EXPLICIT", should_inject))
                 ELSE inject2
  IN  follow /\ inject3

\* should_inject_into_process: whether the child is to be injected
\* into, given the options, the child's systemwide_should_inject mask
\* and systemwide_inject_enabled().
should_inject_into_process(options, should_inject, enabled) ==
  LET follow == options.follow_children
                  \/ options.follow_explicit_children
                  \/ options.follow_systemwide
      inject1 == options.follow_systemwide
                   /\ TEST("INJECT_TRUE", should_inject)
      inject2 == inject1
                   \/ (options.follow_explicit_children
                         /\ TESTALL({"INJECT_EXPLICIT", "INJECT_TRUE"},
                                    should_inject))
      inject3 == IF ~inject2 /\ options.follow_children
                 THEN /\ ~TEST("INJECT_EXCLUDED", should_inject)
                      /\ ~(TEST("INJECT_TRUE", should_inject) /\ enabled
                             /\ ~TEST("INJECT_EXPLICIT", should_inject))
                 ELSE inject2
  IN  follow /\ inject3

KidStep(K) ==
  /\ kid' = K
  /\ UNCHANGED <<wrap_vars, core_vars, inj, more_vars>>

\* maybe_inject_into_process: the system call is a potential inject
\* point of a new process.
AtInjectPoint(c) ==
  \/ c.cxt = NULL /\ c.at_create /\ ~c.wow64
  \/ c.cxt # NULL /\ c.first_thread

\* A child is at its inject point and maybe_inject_into_process has not
\* run yet.
ChildPending ==
  IF kid.child = <<>> THEN FALSE
  ELSE ~kid.child[1].asked /\ AtInjectPoint(kid.child[1])

\* The application creates a process (cxt is NULL) or a thread in
\* another process.
CreateChild(child) ==
  /\ kid.children < MaxChildren
  /\ ~ChildPending
  /\ KidStep([kid EXCEPT !.child = <<child>>, !.children = @ + 1])

\* maybe_inject_into_process at the system call.
MaybeInject ==
  /\ ChildPending
  /\ LET c == kid.child[1]
         inject == should_inject_into_process(kid.options, c.should_inject,
                     c.systemwide_inject_enabled)
     IN  KidStep([kid EXCEPT
                   !.child[1].asked = TRUE,
                   !.child[1].options = kid.options,
                   !.child[1].inject = inject,
                   !.child[1].inject_settings =
                      IF inject THEN c.should_inject ELSE {},
                   !.child[1].injecting = inject])

\* synchronize_dynamic_options picks up changed follow options.
SynchronizeOptions(options) ==
  /\ options # kid.options
  /\ ~ChildPending
  /\ KidStep([kid EXCEPT !.options = options])

Children ==
  { ChildOf(cxt, at_create, wow64, first, m, enabled) :
      cxt \in {NULL, "cxt"}, at_create \in BOOLEAN, wow64 \in BOOLEAN,
      first \in BOOLEAN, m \in InjectSettings, enabled \in BOOLEAN }

InitChild ==
  /\ WrapIdle
  /\ CoreIdle
  /\ MoreIdle
  /\ inj = InjecteeOf(TRUE, 0, NoRegs, <<>>)
  /\ \E options \in FollowOptions :
       kid = [options |-> options, child |-> <<>>, children |-> 0]

NextChild ==
  \/ \E child \in Children : CreateChild(child)
  \/ MaybeInject
  \/ \E options \in FollowOptions : SynchronizeOptions(options)

SpecChild == InitChild /\ [][NextChild]_vars

\* ------------------------------------ the core: locks and os_dump_core
LockStep(L) ==
  /\ lck' = L
  /\ UNCHANGED <<wrap_vars, core_vars, inject_vars, mtx, chp, mem, cbk, cli,
               dmp>>

Take(L, t, l) ==
  [L EXCEPT !.owner[l] = t, !.held[t] = Append(@, l)]

Drop(L, t, l) ==
  [L EXCEPT !.owner[l] = 0, !.held[t] = Without(@, l)]

\* The states of a thread that is past mutex_lock(&dump_core_lock).
DumpStates == {"live", "write", "cleanup", "finish"}

\* mutex_lock in the engine's code: the lock is free and the rank
\* discipline lets this thread take it.
LockAcquire(t, l) ==
  /\ lck.at[t] = "run"
  /\ l \in EngineLocks
  /\ RankAllows(lck.held[t], l)
  /\ lck.owner[l] = 0
  /\ LockStep([Take(lck, t, l) EXCEPT !.last = <<"locked", t>>])

\* mutex_unlock of the lock taken last.
LockRelease(t) ==
  /\ lck.at[t] = "run"
  /\ lck.held[t] # <<>>
  /\ LockStep([Drop(lck, t, lck.held[t][Len(lck.held[t])])
                 EXCEPT !.last = <<"unlocked", t>>])

\* os_terminate(TERMINATE_PROCESS), called with whatever the thread
\* holds: with detach-on-terminate it goes to synch_with_all_threads,
\* without it the process ends, and its locks with it.
TerminateHolding(t, detach_on_terminate) ==
  /\ lck.at[t] = "run"
  /\ LockStep(IF detach_on_terminate
                THEN [lck EXCEPT !.at[t] = "synch",
                                 !.last = <<"terminating", t>>]
                ELSE [LocksOf(lck.live_dump)
                        EXCEPT !.at = [u \in LockTids |-> "gone"],
                               !.last = <<"terminated", t>>])

\* synch_with_all_threads returns owning all_threads_synch_lock and
\* thread_initexit_lock.
TerminateSynch(t) ==
  /\ lck.at[t] = "synch"
  /\ lck.owner["all_threads_synch_lock"] = 0
  /\ lck.owner["thread_initexit_lock"] = 0
  /\ LockStep([Take(Take(lck, t, "all_threads_synch_lock"),
                    t, "thread_initexit_lock")
                 EXCEPT !.at[t] = "detaching", !.last = <<"synched", t>>])

\* os_dump_core up to mutex_lock: a thread that is already dumping
\* returns; any other turns its lock-order checking off.
DumpCoreEnter_checked(t) ==
  /\ lck.at[t] \in {"run", "write"}
  /\ LockStep(IF t = lck.current_dumping_thread_id
                THEN [lck EXCEPT !.last = <<"recursed", t>>]
                ELSE [lck EXCEPT !.at[t] = "dump_lock",
                                 !.last = <<"entered", t>>])

DumpCoreEnter(t) ==
  /\ lck.at[t] \in {"run", "write"}
  /\ LockStep(IF t = lck.current_dumping_thread_id
                THEN [lck EXCEPT !.last = <<"recursed", t>>]
                ELSE [lck EXCEPT !.thread_owned_locks[t] = FALSE,
                                 !.at[t] = "dump_lock",
                                 !.last = <<"entered", t>>])

\* mutex_lock(&dump_core_lock); current_dumping_thread_id = current_id;
\* the live dump starts by resetting its statics.
DumpCoreLock_free(t) ==
  /\ lck.at[t] = "dump_lock"
  /\ LockStep([Take(lck, t, "dump_core_lock")
                 EXCEPT !.current_dumping_thread_id = t,
                        !.at[t] = IF lck.live_dump THEN "live" ELSE "finish",
                        !.have_all_threads_lock =
                          IF lck.live_dump THEN FALSE ELSE @,
                        !.i = IF lck.live_dump THEN 0 ELSE @,
                        !.last = <<"dumping", t>>])

DumpCoreLock(t) ==
  /\ lck.at[t] = "dump_lock"
  /\ lck.owner["dump_core_lock"] = 0
  /\ LockStep([Take(lck, t, "dump_core_lock")
                 EXCEPT !.current_dumping_thread_id = t,
                        !.at[t] = IF lck.live_dump THEN "live" ELSE "finish",
                        !.have_all_threads_lock =
                          IF lck.live_dump THEN FALSE ELSE @,
                        !.i = IF lck.live_dump THEN 0 ELSE @,
                        !.last = <<"dumping", t>>])

\* One turn of the live dump's loop over mutex_trylock(&all_threads_lock).
LiveDumpTry(t) ==
  /\ lck.at[t] = "live"
  /\ LockStep(IF lck.owner["all_threads_lock"] = 0
                THEN [Take(lck, t, "all_threads_lock")
                        EXCEPT !.have_all_threads_lock = TRUE,
                               !.at[t] = "write",
                               !.last = <<"tried", t>>]
                ELSE [lck EXCEPT !.i = @ + 1,
                                 !.at[t] = IF lck.i + 1 >= LiveDumpTries
                                             THEN "write" ELSE "live",
                                 !.last = <<"tried", t>>])

\* The live dump writes threads and memory through dump_core_buf.
LiveDumpWrite(t) ==
  /\ lck.at[t] = "write"
  /\ LockStep([lck EXCEPT !.dump_core_buf = t, !.at[t] = "cleanup",
                          !.last = <<"wrote", t>>])

\* if (have_all_threads_lock) mutex_unlock(&all_threads_lock)
LiveDumpCleanup(t) ==
  /\ lck.at[t] = "cleanup"
  /\ LockStep([(IF lck.have_all_threads_lock
                  THEN Drop(lck, t, "all_threads_lock") ELSE lck)
                 EXCEPT !.at[t] = "finish", !.last = <<"cleaned", t>>])

\* current_dumping_thread_id = 0; mutex_unlock(&dump_core_lock); the
\* thread's lock-order checking is restored.
DumpCoreLeave(t) ==
  /\ lck.at[t] = "finish"
  /\ LockStep([Drop(lck, t, "dump_core_lock")
                 EXCEPT !.current_dumping_thread_id = 0,
                        !.thread_owned_locks[t] = TRUE,
                        !.at[t] = "run",
                        !.last = <<"left", t>>])

InitLocks ==
  /\ WrapIdle
  /\ CoreIdle
  /\ InjectIdle
  /\ MutexIdle
  /\ ChildIdle
  /\ MemIdle
  /\ RestIdle
  /\ \E live_dump \in BOOLEAN : lck = LocksOf(live_dump)

NextLocks ==
  \E t \in LockTids :
    \/ \E l \in EngineLocks : LockAcquire(t, l)
    \/ LockRelease(t)
    \/ \E detach_on_terminate \in BOOLEAN :
         TerminateHolding(t, detach_on_terminate)
    \/ TerminateSynch(t)
    \/ DumpCoreEnter(t)
    \/ DumpCoreLock(t)
    \/ LiveDumpTry(t)
    \/ LiveDumpWrite(t)
    \/ LiveDumpCleanup(t)
    \/ DumpCoreLeave(t)

SpecLocks == InitLocks /\ [][NextLocks]_vars

\* ----------------------- the core: the contended path of mutex operations
MutexStep(M) ==
  /\ mtx' = M
  /\ UNCHANGED <<wrap_vars, core_vars, inject_vars, lck, chp, mem, cbk, cli,
               dmp>>

\* Where a caller of mutex_get_contended_event goes with the handle:
\* mutex_wait_contended_lock to os_wait_event, whose first wait is timed
\* when deadlock_timeout is positive; mutex_notify_released_lock to
\* nt_set_event.
AfterGet(op) ==
  IF op = "notify" THEN "set"
  ELSE IF mtx.deadlock_timeout THEN "wait1" ELSE "forever"

\* mutex_wait_contended_lock or mutex_notify_released_lock, up to
\* ret = *contended_event in mutex_get_contended_event.
ContendedCall(t, op) ==
  /\ mtx.th[t].at = "idle"
  /\ LET ret == mtx.contended_event
     IN  MutexStep([mtx EXCEPT
           !.th[t].op = op,
           !.th[t].ret = ret,
           !.th[t].at = IF ret = CONTENTION_EVENT_NOT_CREATED
                          THEN "create" ELSE AfterGet(op),
           !.last = <<"read", t>>])

\* new_event = nt_create_event(event_type)
CreateEvent(t) ==
  /\ mtx.th[t].at = "create"
  /\ LET new_event == nt_create_event(t)
     IN  MutexStep([mtx EXCEPT
           !.th[t].new_event = new_event,
           !.open = @ \cup {new_event},
           !.th[t].at = "cas",
           !.last = <<"created", t>>])

\* atomic_compare_exchange_ptr(contended_event, NOT_CREATED, new_event):
\* the first gets its event installed; a later one reads the installed
\* event again and closes its own.
ExchangeEvent_store(t) ==
  /\ mtx.th[t].at = "cas"
  /\ MutexStep([mtx EXCEPT
       !.contended_event = mtx.th[t].new_event,
       !.th[t].ret = mtx.th[t].new_event,
       !.th[t].at = AfterGet(mtx.th[t].op),
       !.last = <<"installed", t>>])

ExchangeEvent(t) ==
  /\ mtx.th[t].at = "cas"
  /\ LET not_yet_created ==
           mtx.contended_event = CONTENTION_EVENT_NOT_CREATED
     IN  MutexStep(
           IF not_yet_created
             THEN [mtx EXCEPT
                     !.contended_event = mtx.th[t].new_event,
                     !.th[t].ret = mtx.th[t].new_event,
                     !.th[t].at = AfterGet(mtx.th[t].op),
                     !.last = <<"installed", t>>]
             ELSE [mtx EXCEPT
                     !.th[t].ret = mtx.contended_event,
                     !.open = @ \ {mtx.th[t].new_event},
                     !.closed = @ \cup {mtx.th[t].new_event},
                     !.th[t].at = AfterGet(mtx.th[t].op),
                     !.last = <<"lost", t>>])

\* nt_set_event(event): the auto-reset event becomes signaled.
SetEvent(t) ==
  /\ mtx.th[t].at = "set"
  /\ MutexStep([mtx EXCEPT
       !.signaled = @ \cup {mtx.th[t].ret},
       !.sets = @ + 1,
       !.th[t].at = "done",
       !.last = <<"set", t>>])

\* nt_wait_event_with_timeout returns WAIT_SIGNALED: the waiter is
\* released and the auto-reset event is nonsignaled again.
Released(M, t, step) ==
  [M EXCEPT !.signaled = @ \ {M.th[t].ret},
            !.wakeups = @ + 1,
            !.th[t].res = "WAIT_SIGNALED",
            !.th[t].at = "done",
            !.last = <<step, t>>]

\* The first, timed wait of os_wait_event.
TimedWait(t) ==
  /\ mtx.th[t].at = "wait1"
  /\ MutexStep(IF mtx.th[t].ret \in mtx.signaled
                 THEN Released(mtx, t, "returned")
                 ELSE [mtx EXCEPT !.th[t].res = "WAIT_TIMEDOUT",
                                  !.th[t].at = "once",
                                  !.last = <<"timedout", t>>])

\* DO_ONCE: the first thread of the process to get here reports the
\* possible deadlock and waits a second time; every later one goes
\* straight to the wait without timeout.
DoOnce(t) ==
  /\ mtx.th[t].at = "once"
  /\ MutexStep(IF ~mtx.do_once
                 THEN [mtx EXCEPT !.do_once = TRUE,
                                  !.th[t].reported_timeout = TRUE,
                                  !.reports = @ + 1,
                                  !.th[t].at = "wait2",
                                  !.last = <<"reported", t>>]
                 ELSE [mtx EXCEPT !.th[t].at = "forever",
                                  !.last = <<"skipped", t>>])

\* The second timed wait, inside the DO_ONCE: signaled, it returns; timed
\* out, it reports again and falls through.
SecondWait(t) ==
  /\ mtx.th[t].at = "wait2"
  /\ MutexStep(IF mtx.th[t].ret \in mtx.signaled
                 THEN Released(mtx, t, "returned")
                 ELSE [mtx EXCEPT !.th[t].res = "WAIT_TIMEDOUT",
                                  !.reports = @ + 1,
                                  !.th[t].at = "forever",
                                  !.last = <<"reported2", t>>])

\* nt_wait_event_with_timeout(e, INFINITE_WAIT)
WaitForever_timed(t) ==
  /\ mtx.th[t].at = "forever"
  /\ MutexStep(IF mtx.th[t].ret \in mtx.signaled
                 THEN Released(mtx, t, "returned")
                 ELSE [mtx EXCEPT !.th[t].res = "WAIT_TIMEDOUT",
                                  !.th[t].at = "done",
                                  !.last = <<"returned", t>>])

WaitForever(t) ==
  /\ mtx.th[t].at = "forever"
  /\ mtx.th[t].ret \in mtx.signaled
  /\ MutexStep(Released(mtx, t, "returned"))

InitMutex ==
  /\ WrapIdle
  /\ CoreIdle
  /\ InjectIdle
  /\ LockIdle
  /\ ChildIdle
  /\ MemIdle
  /\ RestIdle
  /\ \E deadlock_timeout \in BOOLEAN : mtx = MutexOf(deadlock_timeout)

NextMutex ==
  \E t \in MutexTids :
    \/ \E op \in {"wait", "notify"} : ContendedCall(t, op)
    \/ CreateEvent(t)
    \/ ExchangeEvent(t)
    \/ SetEvent(t)
    \/ TimedWait(t)
    \/ DoOnce(t)
    \/ SecondWait(t)
    \/ WaitForever(t)

SpecMutex == InitMutex /\ [][NextMutex]_vars

\* -------------------- the injector: create, inject, run, wait and exit
RunStep(C) ==
  /\ chp' = C
  /\ UNCHANGED <<wrap_vars, core_vars, inject_vars, lck, mtx, mem, cbk, cli,
               dmp>>

StartsWith(str, prefix) ==
  /\ Len(str) >= Len(prefix)
  /\ SubSeq(str, 1, Len(prefix)) = prefix

\* snprintf(cmd, BUFFER_SIZE_ELEMENTS(cmd), "<word> %s", library_path)
\* followed by NULL_TERMINATE_BUFFER: what fits in MAXIMUM_PATH - 1.
snprintf_cmd(word, library_path) ==
  LET whole == <<word, " ">> \o library_path
  IN  SubSeq(whole, 1, IF Len(whole) < MAXIMUM_PATH - 1
                         THEN Len(whole) ELSE MAXIMUM_PATH - 1)

\* The argument of a command: what follows the first word and the
\* white space after it.
ArgOf(pipe_cmd) ==
  LET spaces == {i \in 1 .. Len(pipe_cmd) : isspace(pipe_cmd[i])}
      first  == IF spaces = {} THEN Len(pipe_cmd) + 1
                ELSE CHOOSE i \in spaces : \A j \in spaces : i <= j
      rest   == {i \in first .. Len(pipe_cmd) : ~isspace(pipe_cmd[i])}
      start  == IF rest = {} THEN Len(pipe_cmd) + 1
                ELSE CHOOSE i \in rest : \A j \in rest : i <= j
  IN  SubSeq(pipe_cmd, start, Len(pipe_cmd))

\* fork_suspended_child after its read loop: the environment and the
\* executable chosen by the command.  An empty real_exe is NULL.
ChildChoice(pipe_cmd) ==
  IF pipe_cmd = <<>>
    THEN [real_exe |-> <<"exe">>, LD_PRELOAD |-> <<>>,
          DYNAMORIO_VAR_EXE_PATH |-> <<>>]
  ELSE IF StartsWith(pipe_cmd, <<"ld_preload", " ">>)
    THEN [real_exe |-> <<"exe">>, LD_PRELOAD |-> ArgOf(pipe_cmd),
          DYNAMORIO_VAR_EXE_PATH |-> <<>>]
  ELSE IF pipe_cmd = <<"ptrace">>
    THEN [real_exe |-> <<"exe">>, LD_PRELOAD |-> <<>>,
          DYNAMORIO_VAR_EXE_PATH |-> <<>>]
  ELSE IF StartsWith(pipe_cmd, <<"exec_dr", " ">>)
    THEN [real_exe |-> ArgOf(pipe_cmd), LD_PRELOAD |-> <<>>,
          DYNAMORIO_VAR_EXE_PATH |-> <<"exe">>]
  ELSE [real_exe |-> <<>>, LD_PRELOAD |-> <<>>,
        DYNAMORIO_VAR_EXE_PATH |-> <<>>]

\* dr_inject_prepare_to_ptrace
PrepareToPtrace ==
  /\ ~chp.freed
  /\ ~chp.injected
  /\ RunStep([chp EXCEPT !.info.method = "INJECT_PTRACE",
                         !.last = "prepared"])

\* dr_inject_process_inject: ok is whether the executable's header and
\* the configuration could be read, early_inject whether the options
\* hold -early_inject.  inject_early and inject_ld_preload write their
\* command; inject_ptrace writes "ptrace" and closes the pipe.  The call
\* comes while the injector still has the pipe.
ProcessInject(n, early_inject, ok) ==
  /\ ~chp.freed
  /\ ~chp.injected
  /\ chp.info.pipe_fd # 0
  /\ LET method == IF chp.info.method = "INJECT_LD_PRELOAD" /\ early_inject
                     THEN "INJECT_EARLY" ELSE chp.info.method
         cmd == CASE method = "INJECT_EARLY" ->
                       snprintf_cmd("exec_dr", LibPath(n))
                  [] method = "INJECT_LD_PRELOAD" ->
                       snprintf_cmd("ld_preload", LibPath(n))
                  [] method = "INJECT_PTRACE" -> <<"ptrace">>
     IN  RunStep(IF ~ok
                   THEN [chp EXCEPT !.injected = TRUE, !.last = "inject failed"]
                   ELSE [chp EXCEPT
                           !.injected = TRUE,
                           !.info.method = method,
                           !.pipe = @ \o cmd,
                           !.written = @ \o cmd,
                           !.info.pipe_fd =
                             IF method = "INJECT_PTRACE" THEN 0 ELSE @,
                           !.last = "injected"])

\* dr_inject_process_run: close(info->pipe_fd)
ProcessRun ==
  /\ ~chp.freed
  /\ ~chp.ran
  /\ RunStep([chp EXCEPT !.ran = TRUE, !.info.pipe_fd = 0, !.last = "run"])

\* One read of the child's loop: it blocks on an empty pipe whose write
\* end is open, gets 0 at the end of file, and otherwise some of the
\* bytes there are; the loop ends at 0 or with MAXIMUM_PATH - 1 bytes.
ChildRead_whole ==
  /\ chp.child.at = "reading"
  /\ chp.pipe # <<>>
  /\ \E nread \in 1 .. Len(chp.pipe) :
       /\ nread <= MAXIMUM_PATH - chp.child.sofar
       /\ RunStep([chp EXCEPT
            !.child.pipe_cmd = @ \o SubSeq(chp.pipe, 1, nread),
            !.child.sofar = @ + nread,
            !.pipe = SubSeq(@, nread + 1, Len(@)),
            !.child.at = "exec",
            !.last = "read"])

ChildRead ==
  /\ chp.child.at = "reading"
  /\ IF chp.pipe = <<>>
       THEN /\ chp.info.pipe_fd = 0
            /\ RunStep([chp EXCEPT !.child.at = "exec", !.last = "eof"])
       ELSE \E nread \in 1 .. Len(chp.pipe) :
              /\ nread <= MAXIMUM_PATH - chp.child.sofar
              /\ RunStep([chp EXCEPT
                   !.child.pipe_cmd = @ \o SubSeq(chp.pipe, 1, nread),
                   !.child.sofar = @ + nread,
                   !.pipe = SubSeq(@, nread + 1, Len(@)),
                   !.child.at =
                     IF chp.child.sofar + nread < MAXIMUM_PATH - 1
                       THEN "reading" ELSE "exec",
                   !.last = "read"])

\* execv(real_exe, argv); exit(-1) if it returns.
ChildExec ==
  /\ chp.child.at = "exec"
  /\ LET c == ChildChoice(chp.child.pipe_cmd)
     IN  RunStep([chp EXCEPT
           !.child.real_exe = c.real_exe,
           !.child.LD_PRELOAD = c.LD_PRELOAD,
           !.child.DYNAMORIO_VAR_EXE_PATH = c.DYNAMORIO_VAR_EXE_PATH,
           !.child.at = IF c.real_exe = <<>> THEN "zombie" ELSE "running",
           !.child.status = IF c.real_exe = <<>> THEN ExecFailed ELSE @,
           !.last = "exec"])

\* The application ends.
ChildExit(status) ==
  /\ chp.child.at = "running"
  /\ RunStep([chp EXCEPT !.child.at = "zombie", !.child.status = status,
                         !.last = "exited"])

\* dr_inject_wait_for_child: waitpid gives the pid of the child that has
\* ended and stores its status; it fails when the timer interrupts it,
\* and when the child was waited for before.
WaitForChild(timeout_expired) ==
  /\ ~chp.freed
  /\ \/ chp.child.at \in {"zombie", "reaped"}
     \/ timeout_expired
  /\ RunStep(IF chp.child.at = "zombie"
               THEN [chp EXCEPT !.info.exitcode = chp.child.status,
                                !.info.exited = TRUE,
                                !.child.at = "reaped",
                                !.observed = TRUE,
                                !.last = "waited"]
               ELSE [chp EXCEPT !.info.exited = FALSE,
                                !.rewaited = chp.observed,
                                !.last = "wait failed"])

\* kill(info->pid, SIGKILL) and the blocking waitpid after it, for a
\* child that is there.
KillChild(C) ==
  IF C.child.at = "reaped" THEN C
  ELSE [C EXCEPT !.child.at = "reaped",
                 !.child.status =
                   IF C.child.at = "zombie" THEN @ ELSE Killed]

\* dr_inject_process_exit: status is what it returns, any is what an
\* int that waitpid did not write holds.
ProcessExit_again(terminate, any) ==
  /\ ~chp.freed
  /\ LET done == [chp EXCEPT !.freed = TRUE, !.info.pipe_fd = 0,
                             !.terminate = terminate, !.last = "exit"]
         killed == KillChild(done)
     IN  RunStep(IF terminate
                   THEN [killed EXCEPT
                           !.calls = {"kill", "waitpid"},
                           !.status = IF chp.child.at = "reaped"
                                        THEN any ELSE killed.child.status]
                   ELSE [done EXCEPT
                           !.calls = {"waitpid"},
                           !.child.at = IF @ = "zombie" THEN "reaped" ELSE @,
                           !.status = IF chp.child.at = "zombie"
                                        THEN chp.child.status ELSE any])

ProcessExit(terminate, any) ==
  /\ ~chp.freed
  /\ LET done == [chp EXCEPT !.freed = TRUE, !.info.pipe_fd = 0,
                             !.terminate = terminate, !.last = "exit"]
         killed == KillChild(done)
     IN  RunStep(IF chp.info.exited
                   THEN [done EXCEPT !.calls = {},
                                     !.status = chp.info.exitcode]
                 ELSE IF terminate
                   THEN [killed EXCEPT
                           !.calls = {"kill", "waitpid"},
                           !.status = IF chp.child.at = "reaped"
                                        THEN any ELSE killed.child.status]
                   ELSE [done EXCEPT
                           !.calls = {"waitpid"},
                           !.child.at = IF @ = "zombie" THEN "reaped" ELSE @,
                           !.status = IF chp.child.at = "zombie"
                                        THEN chp.child.status ELSE any])

InitRun ==
  /\ WrapIdle
  /\ CoreIdle
  /\ InjectIdle
  /\ LockIdle
  /\ MutexIdle
  /\ MemIdle
  /\ RestIdle
  /\ chp = CreatedChild

NextRun ==
  \/ PrepareToPtrace
  \/ \E n \in 1 .. MaxLibPath, early_inject \in BOOLEAN, ok \in BOOLEAN :
       ProcessInject(n, early_inject, ok)
  \/ ProcessRun
  \/ ChildRead
  \/ ChildExec
  \/ \E status \in ExitCodes : ChildExit(status)
  \/ \E timeout_expired \in BOOLEAN : WaitForChild(timeout_expired)
  \/ \E terminate \in BOOLEAN, any \in ExitCodes : ProcessExit(terminate, any)

SpecRun == InitRun /\ [][NextRun]_vars

\* ------------------------------- the core: internal_change_protection
MemStep(M) ==
  /\ mem' = M
  /\ UNCHANGED <<wrap_vars, core_vars, inject_vars, lck, mtx, chp, cbk, cli,
               dmp>>

\* osprot_add_writecopy
osprot_add_writecopy(prot) ==
  CASE prot = "PAGE_READWRITE" -> "PAGE_WRITECOPY"
    [] prot = "PAGE_EXECUTE_READWRITE" -> "PAGE_EXECUTE_WRITECOPY"
    [] OTHER -> prot

\* The size of the region of equal attributes that starts at pc, as
\* query_virtual_memory gives it (pc is the region's base).
RegionSize(pages, pc) ==
  LET same == {n \in 1 .. (Len(pages) - pc + 1) :
                 \A k \in pc .. (pc + n - 1) : pages[k] = pages[pc]}
  IN  CHOOSE n \in same : \A m \in same : m <= n

\* The flags to ask for, for a committed region with these flags; "skip"
\* when the region already meets the request.
NewFlags(flags, set, writable, cow, new_prot) ==
  IF set THEN new_prot
  ELSE IF writable
    THEN CASE flags \in {"PAGE_NOACCESS", "PAGE_READONLY"} ->
                IF cow THEN osprot_add_writecopy("PAGE_READWRITE")
                ELSE "PAGE_READWRITE"
           [] flags \in {"PAGE_EXECUTE", "PAGE_EXECUTE_READ"} ->
                IF cow THEN osprot_add_writecopy("PAGE_EXECUTE_READWRITE")
                ELSE "PAGE_EXECUTE_READWRITE"
           [] OTHER -> "skip"
    ELSE CASE flags \in {"PAGE_READWRITE", "PAGE_WRITECOPY"} ->
                "PAGE_READONLY"
           [] flags \in {"PAGE_EXECUTE_READWRITE", "PAGE_EXECUTE_WRITECOPY"} ->
                "PAGE_EXECUTE_READ"
           [] OTHER -> "skip"

\* A committed page with this protection meets the request.
Meets(prot, set, writable, new_prot) ==
  IF set THEN prot = new_prot
  ELSE IF writable THEN prot \in WritableProtections
  ELSE prot \notin WritableProtections

\* The call, up to the loop.
ChangeProtection(start, requested_size, set, writable, cow, new_prot, has_out) ==
  /\ mem.at = "idle"
  /\ start + requested_size - 1 <= MaxPages
  /\ MemStep([MemoryOf(mem.pages, mem.kernel) EXCEPT
       !.at = "loop",
       !.start = start,
       !.requested_size = requested_size,
       !.set = set,
       !.writable = writable,
       !.cow = cow,
       !.new_prot = new_prot,
       !.has_out = has_out,
       !.pc = start,
       !.remaining_size = requested_size])

\* skip: pc += subregion_size; remaining_size -= subregion_size; while
\* (remaining_size > 0)
Advance(M, subregion_size) ==
  [M EXCEPT !.pc = @ + subregion_size,
            !.remaining_size = @ - subregion_size,
            !.at = IF M.remaining_size - subregion_size > 0
                     THEN "loop" ELSE "finish"]

\* protect_virtual_memory on the subregion and what follows it; res is
\* whether it succeeded.
ProtectSubregion_quiet(M, subregion_size, new_flags, res) ==
  Advance([M EXCEPT
             !.pages = [k \in PageNos |->
                          IF res /\ k \in M.pc .. (M.pc + subregion_size - 1)
                            THEN [@[k] EXCEPT !.Protect = new_flags]
                            ELSE @[k]],
             !.requests_failed = IF res THEN @ ELSE @ + 1,
             !.protect_calls = @ + 1,
             !.changed_permissions = TRUE],
          subregion_size)

ProtectSubregion_ifchanged(M, subregion_size, new_flags, res) ==
  Advance([M EXCEPT
             !.pages = [k \in PageNos |->
                          IF res /\ k \in M.pc .. (M.pc + subregion_size - 1)
                            THEN [@[k] EXCEPT !.Protect = new_flags]
                            ELSE @[k]],
             !.subregions_failed = IF res THEN @ ELSE TRUE,
             !.requests_failed = IF res THEN @ ELSE @ + 1,
             !.protect_calls = @ + 1,
             !.changed_permissions = IF res THEN TRUE ELSE @],
          subregion_size)

ProtectSubregion(M, subregion_size, new_flags, res) ==
  Advance([M EXCEPT
             !.pages = [k \in PageNos |->
                          IF res /\ k \in M.pc .. (M.pc + subregion_size - 1)
                            THEN [@[k] EXCEPT !.Protect = new_flags]
                            ELSE @[k]],
             !.subregions_failed = IF res THEN @ ELSE TRUE,
             !.requests_failed = IF res THEN @ ELSE @ + 1,
             !.protect_calls = @ + 1,
             !.changed_permissions = TRUE],
          subregion_size)

\* One pass of the loop.
Subregion(res) ==
  /\ mem.at = "loop"
  /\ IF mem.pc >= mem.kernel
       THEN MemStep([mem EXCEPT !.query_failed = TRUE, !.at = "finish"])
       ELSE
         LET mbi == mem.pages[mem.pc]
             allow_size == RegionSize(mem.pages, mem.pc)
             subregion_size == IF mem.remaining_size > allow_size
                                 THEN allow_size ELSE mem.remaining_size
             new_flags == NewFlags(mbi.Protect, mem.set, mem.writable,
                                   mem.cow, mem.new_prot)
         IN  MemStep(
               CASE mbi.State = "MEM_RESERVE" -> Advance(mem, subregion_size)
                 [] mbi.State = "MEM_FREE" ->
                      [mem EXCEPT !.subregions_failed = TRUE,
                                  !.at = "finish"]
                 [] OTHER ->
                      IF new_flags = "skip"
                        THEN Advance(mem, subregion_size)
                        ELSE ProtectSubregion(mem, subregion_size,
                                              new_flags, res))

\* finish: if (changed_protection != NULL) *changed_protection =
\* changed_permissions; return !subregions_failed
Finish ==
  /\ mem.at = "finish"
  /\ MemStep([mem EXCEPT !.ret = ~mem.subregions_failed,
                         !.changed_protection =
                           IF mem.has_out THEN <<mem.changed_permissions>>
                           ELSE @,
                         !.at = "returned"])

\* The caller goes on; the memory stays as the call left it.
ProtectionReturn ==
  /\ mem.at = "returned"
  /\ MemStep(MemoryOf(mem.pages, mem.kernel))

\* The requests of the callers: set_protection gives new_prot, the
\* others ask for writable or not, and new_prot is ignored.  Only
\* make_hookable passes a changed_protection.
Requests ==
  [set : {TRUE}, writable : {FALSE}, cow : {FALSE}, new_prot : NewProts,
   has_out : {FALSE}]
    \cup [set : {FALSE}, writable : BOOLEAN, cow : BOOLEAN,
          new_prot : {"PAGE_NOACCESS"}, has_out : {FALSE}]
    \cup [set : {FALSE}, writable : {TRUE}, cow : {FALSE},
          new_prot : {"PAGE_NOACCESS"}, has_out : {TRUE}]

InitMem ==
  /\ WrapIdle
  /\ CoreIdle
  /\ InjectIdle
  /\ LockIdle
  /\ MutexIdle
  /\ ChildIdle
  /\ RestIdle
  /\ \E pages \in [PageNos -> PageInfos], kernel \in 1 .. (MaxPages + 1) :
       mem = MemoryOf(pages, kernel)

NextMem ==
  \/ \E start \in PageNos, requested_size \in PageNos, r \in Requests :
       ChangeProtection(start, requested_size, r.set, r.writable, r.cow,
                        r.new_prot, r.has_out)
  \/ \E res \in BOOLEAN : Subregion(res)
  \/ Finish
  \/ ProtectionReturn

SpecMem == InitMem /\ [][NextMem]_vars

\* ------------------------ the core: detach_helper_handle_callbacks
CbStep(C) ==
  /\ cbk' = C
  /\ UNCHANGED <<wrap_vars, core_vars, inject_vars, lck, mtx, chp, mem, cli,
                 dmp>>

\* get_syscall_method() == SYSCALL_METHOD_SYSENTER &&
\* INTERNAL_OPTION(detach_fix_sysenter_on_stack)
FixesStack(C) ==
  /\ C.syscall_method = "SYSCALL_METHOD_SYSENTER"
  /\ C.detach_fix_sysenter_on_stack

\* The first walk, for thread i: the default is to clean up; for a
\* thread with stacked callbacks the return addresses on its stack are
\* fixed if the method is sysenter, and its private code is kept if not.
FirstWalk_default ==
  /\ cbk.at = "first_walk"
  /\ LET i == cbk.i
         dc == cbk.dcontexts[i]
     IN  CbStep([cbk EXCEPT
           !.dcontexts[i] =
             IF dc # <<>> /\ FixesStack(cbk)
               THEN [k \in 1 .. Len(dc) |->
                       [dc[k] EXCEPT !.xsp_slot = dc[k].post_syscall_pc]]
               ELSE dc,
           !.num_threads_with_callbacks =
             IF dc # <<>> THEN @ + 1 ELSE @,
           !.num_stacked_callbacks = @ + Len(dc),
           !.cleanup_tpc[i] = TRUE,
           !.i = IF i = MaxCbThreads THEN 1 ELSE i + 1,
           !.at = IF i = MaxCbThreads THEN "second_walk" ELSE @])

FirstWalk ==
  /\ cbk.at = "first_walk"
  /\ LET i == cbk.i
         dc == cbk.dcontexts[i]
     IN  CbStep([cbk EXCEPT
           !.dcontexts[i] =
             IF dc # <<>> /\ FixesStack(cbk)
               THEN [k \in 1 .. Len(dc) |->
                       [dc[k] EXCEPT !.xsp_slot = dc[k].post_syscall_pc]]
               ELSE dc,
           !.num_threads_with_callbacks =
             IF dc # <<>> THEN @ + 1 ELSE @,
           !.num_stacked_callbacks = @ + Len(dc),
           !.cleanup_tpc[i] = IF dc # <<>> THEN FixesStack(cbk) ELSE TRUE,
           !.i = IF i = MaxCbThreads THEN 1 ELSE i + 1,
           !.at = IF i = MaxCbThreads THEN "second_walk" ELSE @])

\* The callback_addrs of the threads from i on, and their per_thread
\* entries; first is where a thread's addresses begin.
RECURSIVE CallbackAddrs(_, _)
CallbackAddrs(C, i) ==
  IF i > MaxCbThreads THEN <<>>
  ELSE [k \in 1 .. Len(C.dcontexts[i]) |->
          C.dcontexts[i][k].post_syscall_pc] \o CallbackAddrs(C, i + 1)

RECURSIVE PerThread(_, _, _)
PerThread(C, i, first) ==
  IF i > MaxCbThreads THEN <<>>
  ELSE IF C.dcontexts[i] = <<>> THEN PerThread(C, i + 1, first)
  ELSE <<[tid |-> i, callback_addrs |-> first,
          count |-> Len(C.dcontexts[i])]>>
         \o PerThread(C, i + 1, first + Len(C.dcontexts[i]))

\* The second walk, needed only when the stacks were not fixed: the
\* dispatch buffer is filled, and the after-syscall code of every thread
\* with stacked callbacks is patched to go to it.  The return value is
\* whether there are outstanding callbacks of that kind.
SecondWalk ==
  /\ cbk.at = "second_walk"
  /\ CbStep(
       IF cbk.num_stacked_callbacks > 0 /\ ~FixesStack(cbk)
         THEN [cbk EXCEPT
                 !.callback_addrs = CallbackAddrs(cbk, 1),
                 !.per_thread = PerThread(cbk, 1, 1),
                 !.patched = {i \in CbTids : cbk.dcontexts[i] # <<>>},
                 !.detach_stacked_callbacks = TRUE,
                 !.at = "translate"]
         ELSE [cbk EXCEPT !.detach_stacked_callbacks = FALSE,
                          !.at = "translate"])

\* detach_helper: every thread but the detaching one is resumed.
ResumeThreads ==
  /\ cbk.at = "translate"
  /\ CbStep([cbk EXCEPT
       !.state = [i \in CbTids |->
                    IF i = cbk.my_thread_index THEN @[i] ELSE "resumed"],
       !.i = 1,
       !.at = "cleanup"])

\* detach_helper: DETACH_BAD_STATE_NO_CLEANUP skips all cleanup and the
\* detaching thread kills itself.
NoCleanupExit ==
  /\ cbk.at = "cleanup"
  /\ cbk.detach_type = "DETACH_BAD_STATE_NO_CLEANUP"
  /\ CbStep([cbk EXCEPT
       !.state = [i \in CbTids |->
                    IF i = cbk.my_thread_index THEN "terminated" ELSE @[i]],
       !.at = "done"])

\* detach_helper: dynamo_other_thread_exit for thread i, which frees its
\* private code if cleanup_tpc[i]; the detaching thread is left for last.
CleanupThread ==
  /\ cbk.at = "cleanup"
  /\ cbk.detach_type # "DETACH_BAD_STATE_NO_CLEANUP"
  /\ LET i == cbk.i
     IN  CbStep([cbk EXCEPT
           !.tpc[i] = IF i # cbk.my_thread_index /\ cbk.cleanup_tpc[i]
                        THEN "freed" ELSE @,
           !.i = IF i = MaxCbThreads THEN 1 ELSE i + 1,
           !.at = IF i = MaxCbThreads THEN "self" ELSE @])

\* detach_helper: the detaching thread's own dcontext is freed, private
\* code included, and the thread kills itself.
CleanupSelf ==
  /\ cbk.at = "self"
  /\ CbStep([cbk EXCEPT
       !.tpc = [i \in CbTids |->
                  IF i = cbk.my_thread_index THEN "freed" ELSE @[i]],
       !.state = [i \in CbTids |->
                    IF i = cbk.my_thread_index THEN "terminated" ELSE @[i]],
       !.at = "done"])

\* Where a callback return of thread i goes.  With sysenter the kernel
\* returns to a fixed location that does a ret, to the address on the
\* stack; with any other method it returns to the instruction after the
\* system call, in the thread's private code.  Private code that was
\* patched goes on to the dispatch buffer, which jumps to the recorded
\* address.
LandsAt(C, i, cb) ==
  LET target == IF C.syscall_method = "SYSCALL_METHOD_SYSENTER"
                  THEN cb.xsp_slot ELSE after_do_syscall_code(i)
  IN  IF ~is_dynamo_address(target) THEN "app"
      ELSE IF C.tpc[i] = "freed" THEN "freed_code"
      ELSE IF i \in C.patched
                /\ \E n \in 1 .. Len(C.callback_addrs) :
                     C.callback_addrs[n] = cb.post_syscall_pc
             THEN "app"
      ELSE "engine_code"

\* A resumed thread returns from a stacked callback.
CallbackReturn(i) ==
  /\ cbk.state[i] = "resumed"
  /\ cbk.dcontexts[i] # <<>>
  /\ CbStep([cbk EXCEPT
       !.landed[i] = Append(@, LandsAt(cbk, i, Head(cbk.dcontexts[i]))),
       !.dcontexts[i] = Tail(@)])

InitCallbacks ==
  /\ WrapIdle
  /\ CoreIdle
  /\ InjectIdle
  /\ LockIdle
  /\ MutexIdle
  /\ ChildIdle
  /\ MemIdle
  /\ ClientIdle
  /\ DumpIdle
  /\ \E method \in SyscallMethods, fix \in BOOLEAN,
        detach_type \in DetachTypes,
        my_thread_index \in CbTids \cup {-1},
        counts \in [CbTids -> 0 .. MaxCallbacks] :
       /\ detach_type = "DETACH_NORMAL_TYPE" => my_thread_index # -1
       /\ cbk = CallbacksOf(method, fix, detach_type, my_thread_index,
                            counts)

NextCallbacks ==
  \/ FirstWalk
  \/ SecondWalk
  \/ ResumeThreads
  \/ NoCleanupExit
  \/ CleanupThread
  \/ CleanupSelf
  \/ \E i \in CbTids : CallbackReturn(i)

SpecCallbacks == InitCallbacks /\ [][NextCallbacks]_vars

\* --------------------------------- the core: client threads' lives
CliStep(C) ==
  /\ cli' = C
  /\ UNCHANGED <<wrap_vars, core_vars, inject_vars, lck, mtx, chp, mem, cbk,
                 dmp>>

\* dr_create_client_thread: create_thread starts the thread running.
CreateClientThread(t) ==
  /\ cli.at[t] = "none"
  /\ cli.kind[t] = "client"
  /\ CliStep([cli EXCEPT !.at[t] = "created"])

\* dr_create_client_thread: add_thread marks the thread as a native
\* thread: a record with no dcontext, not under the engine's control.
AddThread(t) ==
  /\ cli.at[t] \in {"created", "refused"}
  /\ t \notin cli.all_threads
  /\ CliStep([cli EXCEPT
       !.all_threads = @ \cup {t},
       !.at[t] = IF @ = "created" THEN "run" ELSE @])

\* dr_terminate_client_thread: thread_lookup and the test of the record;
\* a thread with no record yet, and a thread of the application, is told
\* false.
TerminateLookup(t) ==
  /\ cli.at[t] \in {"created", "run"}
  /\ CliStep(IF t \in cli.all_threads /\ cli.kind[t] = "client"
               THEN [cli EXCEPT !.at[t] = "looked_up"]
               ELSE [cli EXCEPT !.at[t] = "refused", !.ret[t] = "false"])

\* dr_terminate_client_thread: ATOMIC_INC(int, exiting_thread_count),
\* "so that we don't get killed after we're off the all_threads list".
CountExiting_skipped(t) ==
  /\ cli.at[t] = "looked_up"
  /\ CliStep([cli EXCEPT !.at[t] = "counted"])

CountExiting(t) ==
  /\ cli.at[t] = "looked_up"
  /\ CliStep([cli EXCEPT !.exiting_thread_count = @ + 1,
                         !.counted = @ \cup {t},
                         !.at[t] = "counted"])

\* dr_terminate_client_thread: remove_thread(NT_CURRENT_THREAD, tid).
RemoveThread(t) ==
  /\ cli.at[t] = "counted"
  /\ CliStep([cli EXCEPT !.all_threads = @ \ {t},
                         !.at[t] = "removed"])

\* dr_terminate_client_thread: cleanup_and_terminate_client_thread frees
\* the stack and ends the thread.
CleanupAndTerminate(t) ==
  /\ cli.at[t] = "removed"
  /\ CliStep([cli EXCEPT !.at[t] = "terminated"])

\* A thread that was told false runs on, and can ask again.
RunOn(t) ==
  /\ cli.at[t] = "refused"
  /\ t \in cli.all_threads
  /\ CliStep([cli EXCEPT !.at[t] = "run", !.ret[t] = "none"])

InitClients ==
  /\ WrapIdle
  /\ CoreIdle
  /\ InjectIdle
  /\ LockIdle
  /\ MutexIdle
  /\ ChildIdle
  /\ MemIdle
  /\ CallbackIdle
  /\ DumpIdle
  /\ \E kind \in [CliTids -> {"client", "app"}] : cli = ClientsOf(kind)

NextClients ==
  \/ \E t \in CliTids : CreateClientThread(t)
  \/ \E t \in CliTids : AddThread(t)
  \/ \E t \in CliTids : TerminateLookup(t)
  \/ \E t \in CliTids : CountExiting(t)
  \/ \E t \in CliTids : RemoveThread(t)
  \/ \E t \in CliTids : CleanupAndTerminate(t)
  \/ \E t \in CliTids : RunOn(t)

SpecClients == InitClients /\ [][NextClients]_vars

\* ------------------------- the core: the thread walks of a live dump
DmpStep(D) ==
  /\ dmp' = D
  /\ UNCHANGED <<wrap_vars, core_vars, inject_vars, lck, mtx, chp, mem, cbk,
                 cli>>

\* The next thread of a walk of all_threads: the first listed thread
\* past i, or 0 when the walk is at its end.  The dumping thread itself
\* is skipped and is not among these.
NextListed(D) ==
  LET rest == {t \in D.all_threads : t > D.i}
  IN  IF D.all_threads_null \/ rest = {} THEN 0
      ELSE CHOOSE t \in rest : \A u \in rest : t <= u

\* os_dump_core_live_dump up to the walks: all_threads_lock is tried
\* ("taken"), is owned by the dumping thread already ("owned"), or was
\* not to be had and the dump goes on without it ("none").
LiveDumpBegin(lock) ==
  /\ dmp.at = "idle"
  /\ DmpStep([dmp EXCEPT !.lock = lock,
                         !.have_all_threads_lock = (lock = "taken"),
                         !.i = 0,
                         !.at = "suspend"])

\* The walk that suspends: thread_suspend on the next thread, whose
\* result is ignored, or the end of the walk.
SuspendNext(ok) ==
  /\ dmp.at = "suspend"
  /\ LET t == NextListed(dmp)
     IN  DmpStep(
           IF t = 0 THEN [dmp EXCEPT !.i = 0, !.at = "memory"]
           ELSE [dmp EXCEPT
                   !.suspend_count[t] = IF ok THEN @ + 1 ELSE @,
                   !.suspended[t] = Append(@, ok),
                   !.i = t])

\* The memory of the process is written to the file.
DumpMemory ==
  /\ dmp.at = "memory"
  /\ DmpStep([dmp EXCEPT !.i = 0, !.at = "resume"])

\* The walk that resumes: thread_resume on the next thread, whatever
\* thread_suspend said of it, or the end of the walk.  A resume of a
\* thread that is not suspended changes nothing.
ResumeNext_skipped(ok) ==
  /\ dmp.at = "resume"
  /\ LET t == NextListed(dmp)
     IN  DmpStep(
           IF t = 0 THEN [dmp EXCEPT !.i = 0, !.at = "cleanup"]
           ELSE [dmp EXCEPT !.i = t])

ResumeNext(ok) ==
  /\ dmp.at = "resume"
  /\ LET t == NextListed(dmp)
     IN  DmpStep(
           IF t = 0 THEN [dmp EXCEPT !.i = 0, !.at = "cleanup"]
           ELSE [dmp EXCEPT
                   !.suspend_count[t] = IF ok /\ @ > 0 THEN @ - 1 ELSE @,
                   !.resumed[t] = Append(@, ok),
                   !.i = t])

\* cleanup: if (have_all_threads_lock) mutex_unlock(&all_threads_lock)
LiveDumpEnd ==
  /\ dmp.at = "cleanup"
  /\ DmpStep([dmp EXCEPT !.have_all_threads_lock = FALSE,
                         !.at = "returned"])

\* While the dump goes on without the lock, its holder changes the
\* list: a thread is added, or a running thread takes itself off.
ListAdd(t) ==
  /\ dmp.at \in {"suspend", "memory", "resume"}
  /\ dmp.lock = "none"
  /\ ~dmp.all_threads_null
  /\ t \notin dmp.all_threads
  /\ t \notin dmp.entry_threads
  /\ DmpStep([dmp EXCEPT !.all_threads = @ \cup {t}])

ListRemove(t) ==
  /\ dmp.at \in {"suspend", "memory", "resume"}
  /\ dmp.lock = "none"
  /\ t \in dmp.all_threads
  /\ dmp.suspend_count[t] = 0
  /\ DmpStep([dmp EXCEPT !.all_threads = @ \ {t}])

InitDump ==
  /\ WrapIdle
  /\ CoreIdle
  /\ InjectIdle
  /\ LockIdle
  /\ MutexIdle
  /\ ChildIdle
  /\ MemIdle
  /\ CallbackIdle
  /\ ClientIdle
  /\ \E all_threads \in SUBSET DmpTids, all_threads_null \in BOOLEAN,
        suspend_count \in [DmpTids -> 0 .. MaxSuspended] :
       /\ all_threads_null => all_threads = {}
       /\ dmp = LiveDumpOf(all_threads, all_threads_null, suspend_count)

NextDump ==
  \/ \E lock \in {"taken", "owned", "none"} : LiveDumpBegin(lock)
  \/ \E ok \in BOOLEAN : SuspendNext(ok)
  \/ DumpMemory
  \/ \E ok \in BOOLEAN : ResumeNext(ok)
  \/ LiveDumpEnd
  \/ \E t \in DmpTids : ListAdd(t)
  \/ \E t \in DmpTids : ListRemove(t)

SpecDump == InitDump /\ [][NextDump]_vars

\* ----------------------------------------------------------- properties
PreCallbacks ==
  {"wrap_pre", "wrap_unwindtest_pre", "wrap_unwindtest_seh_pre"}
PostCallbacks ==
  {"wrap_post", "wrap_unwindtest_post", "wrap_unwindtest_seh_post"}
UnwindPosts == {"wrap_unwindtest_post", "wrap_unwindtest_seh_post"}

IsNormal(e) == ~e.abn
IsCallback(cb) == cb # NULL

\* The callbacks of an event that did not run on an abnormal unwind.
Normal(cbs) == SelectSeq(cbs, IsNormal)
Names(cbs) == [i \in 1..Len(cbs) |-> cbs[i].cb]

\* The pre-callbacks, and the post-callbacks, of a list of callback pairs.
PreNames(pairs) ==
  SelectSeq([i \in 1..Len(pairs) |-> pairs[i].pre], IsCallback)
PostNames(pairs) ==
  SelectSeq([i \in 1..Len(pairs) |-> pairs[i].post], IsCallback)

\* How many decrements of the TLS field the frames of a wrap-stack still
\* owe: one per unwind-test post-callback of a frame whose pre-callback
\* incremented it.
RECURSIVE Pending(_)
Pending(ws) ==
  IF ws = <<>> THEN 0
  ELSE Pending(Front(ws)) +
       (IF Last(ws).func = "longdone" THEN 0
        ELSE Cardinality({i \in 1..Len(Last(ws).posts) :
                            Last(ws).posts[i].post \in UnwindPosts}))

\* C1: every pre-callback is matched by exactly one post-callback, normal
\* or abnormal: the counter the unwind-test callbacks keep in the TLS
\* field is the number of post-callbacks still owed to frames on the
\* wrap-stack, and it is zero with an empty wrap-stack whenever the
\* extension has run with the application outside every wrapped frame.
C1_PrePostPaired ==
  ~aborted =>
    /\ tls_val = Pending(wrap_stack)
    /\ (ev.engine /\ app_stack = <<>>) =>
         (wrap_stack = <<>> /\ tls_val = 0)

\* A nonlocal exit has bypassed returns, the bypassed frames' post-callbacks
\* have run abnormally, and the counter is back at zero.
C1_Witness ==
  /\ ~aborted /\ ev.engine /\ app_stack = <<>>
  /\ \E i \in 1..Len(ev.cbs) : ev.cbs[i].abn
  /\ tls_val = 0 /\ wrap_stack = <<>>

\* The application's steps in scenario S4, and the callbacks they invoke.
S4Script ==
  << <<"call", "long0">>, <<"call", "long1">>, <<"call", "long2">>,
     <<"call", "long3">>, <<"longjmp", "long0">>, <<"return", "long0">>,
     <<"call", "longdone">>, <<"return", "longdone">> >>

PreOf(f) == [cb |-> "wrap_unwindtest_pre", func |-> f, abn |-> FALSE]
PostOf(f, abn) == [cb |-> "wrap_unwindtest_post", func |-> f, abn |-> abn]

S4Log ==
  << PreOf("long0"), PreOf("long1"), PreOf("long2"), PreOf("long3"),
     PostOf("long3", TRUE), PostOf("long2", TRUE), PostOf("long1", TRUE),
     PostOf("long0", FALSE), PreOf("longdone"), PostOf("longdone", FALSE) >>

\* The TLS field after each callback of S4Log.
S4Tls == <<1, 2, 3, 4, 3, 2, 1, 0, 0, 0>>

\* How much of S4Log has happened after n steps of S4Script: after the
\* jump the abnormal post-callbacks have run or are still to run at the
\* next cache exit.
S4Done(n) ==
  CASE n <= 4 -> {n}
    [] n = 5  -> {4, 7}
    [] n = 6  -> {8}
    [] n = 7  -> {9}
    [] OTHER  -> {10}

\* C2: in scenario S4, with one wrap per long function, the pre-callbacks
\* fire in call order, the post-callbacks of the bypassed frames long3,
\* long2, long1 fire innermost first with the abnormal flag before the
\* pre-callback of longdone, the post-callbacks of long0 and longdone fire
\* normally and the wrap-stack is empty at the end.
C2_AbnormalUnwindOrder ==
  (/\ recording /\ ~windows
   /\ Len(script) <= Len(S4Script)
   /\ script = SubSeq(S4Script, 1, Len(script)))
  =>
  /\ ~aborted
  /\ \E m \in S4Done(Len(script)) :
       /\ log = SubSeq(S4Log, 1, m)
       /\ tls_val = IF m = 0 THEN 0 ELSE S4Tls[m]
  /\ (script = S4Script => wrap_stack = <<>>)

C2_Witness ==
  /\ recording /\ ~windows /\ script = S4Script /\ log = S4Log
  /\ wrap_stack = <<>>

\* C3: a call whose pre-callback calls skip_call returns to the caller
\* with the value given (7 for the client's wrap_pre on skipme), and the
\* function's code does not run: no frame is entered and the stack
\* pointer is the caller's.  Every call of skipme wrapped with wrap_pre is
\* skipped.
C3_SkipReturnsValue ==
  /\ (ev.kind = "call" /\ ev.skip) =>
       /\ ev.ret = 7
       /\ ev.body = NULL
       /\ (app_stack = <<>> \/ Last(app_stack).func # ev.func)
       /\ xsp = StackBase - Len(app_stack)
  /\ (/\ ev.kind = "call" /\ ev.func = "skipme" /\ ev.engine /\ ev.ok
      /\ \E i \in 1..Len(ev.reg) : ev.reg[i].pre = "wrap_pre")
     => ev.skip

C3_Witness ==
  /\ ev.kind = "call" /\ ev.func = "skipme" /\ ev.skip /\ ev.ret = 7
  /\ ev.seen[1] = 37 /\ app_stack = <<>>

\* C4: after a pre-callback has called skip_call, no post-callback runs
\* for that invocation and no further pre-callback of the function runs:
\* the skipping pre-callback is the last callback of the call, no frame
\* for the call is on the wrap-stack, and no post-callback ever runs for
\* skipme.
C4_SkipNoPostNoLaterPre ==
  /\ (ev.kind = "call" /\ ev.skip) =>
       /\ Len(Normal(ev.cbs)) = 1
       /\ Last(ev.cbs).cb \in PreCallbacks
       /\ ~Last(ev.cbs).abn
  /\ \A i \in 1..Len(wrap_stack) : wrap_stack[i].func # "skipme"
  /\ \A i \in 1..Len(ev.cbs) :
       ev.cbs[i].func = "skipme" => ev.cbs[i].cb \in PreCallbacks

\* A skipped call of a function with two pre-callbacks registered.
C4_Witness ==
  /\ ev.kind = "call" /\ ev.skip
  /\ Len(PreNames(ev.reg)) = 2
  /\ Len(ev.cbs) = 1

\* C5 as amended: the callbacks of several wraps on one address run in
\* the reverse of the order of registration, the pre-callbacks and the
\* post-callbacks alike.
C5_ReverseRegistrationOrder ==
  /\ (ev.kind = "call" /\ ev.engine /\ ev.ok /\ ~ev.skip) =>
       Names(Normal(ev.cbs)) = PreNames(Reverse(ev.reg))
  /\ (ev.kind = "return" /\ ev.engine /\ ev.ok) =>
       Names(Normal(ev.cbs)) = PostNames(Reverse(ev.reg))

\* C5 as claimed: the pre-callbacks run in registration order and the
\* post-callbacks in the reverse of it.
C5_PreInRegistrationOrder ==
  /\ (ev.kind = "call" /\ ev.engine /\ ev.ok /\ ~ev.skip) =>
       Names(Normal(ev.cbs)) = PreNames(ev.reg)
  /\ (ev.kind = "return" /\ ev.engine /\ ev.ok) =>
       Names(Normal(ev.cbs)) = PostNames(Reverse(ev.reg))

\* The return of a call with two post-callbacks registered.
C5_Witness ==
  /\ ev.kind = "return" /\ ev.engine /\ ev.ok
  /\ Len(PostNames(ev.reg)) = 2
  /\ Names(Normal(ev.cbs)) =
       <<"wrap_unwindtest_seh_post", "wrap_unwindtest_post">>

\* C6: with several wraps registered for one function, the pre-callback
\* of the wrap registered last is the first callback of a call, and the
\* pre-callbacks follow in the reverse order of registration.
C6_LastRegisteredFirst ==
  (/\ ev.kind = "call" /\ ev.engine /\ ev.ok
   /\ PreNames(ev.reg) # <<>>)
  =>
  /\ Normal(ev.cbs) # <<>>
  /\ Head(Normal(ev.cbs)).cb = Last(PreNames(ev.reg))
  /\ \A i \in 1..Len(Normal(ev.cbs)) :
       Normal(ev.cbs)[i].cb =
         PreNames(ev.reg)[Len(PreNames(ev.reg)) + 1 - i]

\* A call of a function with two wraps whose pre-callbacks differ.
C6_Witness ==
  /\ ev.kind = "call" /\ ev.engine /\ ev.ok
  /\ PreNames(ev.reg) =
       <<"wrap_unwindtest_pre", "wrap_unwindtest_seh_pre">>
  /\ Names(Normal(ev.cbs)) =
       <<"wrap_unwindtest_seh_pre", "wrap_unwindtest_pre">>

\* The user data handed to callback cb, if the event invoked it.
Got(cbs, cb, func) ==
  {cbs[i].ud : i \in {j \in 1..Len(cbs) :
                        cbs[j].cb = cb /\ cbs[j].func = func}}

\* C7: the argument wrap_pre writes with set_arg is the argument the
\* function's code runs with (37 passed, 42 run with), and the value
\* wrap_post writes with set_retval is the value the caller observes (-4).
C7_SetArgSetRetval ==
  /\ (/\ ev.kind = "call" /\ ev.func = "level0" /\ ev.ok
      /\ Got(ev.cbs, "wrap_pre", "level0") # {})
     =>
     /\ ev.seen[1] = 37
     /\ ev.args[1] = 42
     /\ Last(app_stack).func = "level0"
     /\ Last(app_stack).args[1] = 42
  /\ (/\ ev.kind = "return" /\ ev.func = "level0" /\ ev.engine
      /\ Got(ev.cbs, "wrap_post", "level0") # {})
     => BodyRet(ev.body, ev.args) = 42
  /\ (/\ ev.kind = "return" /\ ev.func = "level1" /\ ev.ok
      /\ Got(ev.cbs, "wrap_post", "level1") # {})
     => ev.ret = -4

C7_Witness ==
  /\ ev.kind = "return" /\ ev.func = "level1" /\ ev.ok
  /\ Got(ev.cbs, "wrap_post", "level1") # {}
  /\ ev.ret = -4 /\ BodyRet(ev.body, ev.args) # -4
  /\ app_stack # <<>>
  /\ Last(app_stack).func = "level0" /\ Last(app_stack).args[1] = 42

\* The user data wrap_pre leaves for a call of func.
Stored(func) == IF func = "level0" THEN 99 ELSE 0

\* C8 as amended: unless the no-frills flag is set, the user data a
\* pre-callback stores is the value handed to the post-callback of the
\* same invocation, also with wrapped calls nested in between.
C8_UserDataPreserved ==
  (ev.kind = "return" /\ ~no_frills) =>
    \A i \in 1..Len(ev.cbs) :
      (ev.cbs[i].cb = "wrap_post" /\ ~ev.cbs[i].abn) =>
        ev.cbs[i].ud = Stored(ev.cbs[i].func)

\* C8 as claimed: the same, whatever the flags.
C8_UserDataAlwaysPreserved ==
  ev.kind = "return" =>
    \A i \in 1..Len(ev.cbs) :
      (ev.cbs[i].cb = "wrap_post" /\ ~ev.cbs[i].abn) =>
        ev.cbs[i].ud = Stored(ev.cbs[i].func)

\* level0 returns after a nested wrapped call and its post-callback
\* receives the 99 its pre-callback stored.
C8_Witness ==
  /\ ev.kind = "return" /\ ev.func = "level0" /\ ev.nested /\ ev.ok
  /\ ~no_frills
  /\ Got(ev.cbs, "wrap_post", "level0") = {99}

\* C9: drwrap_replace without override succeeds when the address has no
\* replacement and fails, leaving the replacement in force, when it has
\* one; with override it installs the new replacement.  An address has
\* at most one replacement.
C9_OneReplacement ==
  /\ \A f \in Funcs : replace_table[f] \in Replacements \cup {NULL}
  /\ ev.kind = "replace" =>
       IF ev.prev # NULL /\ ~ev.override
       THEN ~ev.ok /\ replace_table[ev.func] = ev.prev
       ELSE ev.ok /\ replace_table[ev.func] = ev.repl

\* A second replace without override has failed and the first
\* replacement is still in force.
C9_Witness ==
  /\ ev.kind = "replace" /\ ~ev.override /\ ~ev.ok
  /\ ev.prev # NULL /\ ev.repl \notin {NULL, ev.prev}
  /\ replace_table[ev.func] = ev.prev

\* C10: removing a replacement (NULL with override) succeeds and leaves
\* the function without replacement, and a call of a function without
\* replacement runs the function's own code, a call of a replaced
\* function the replacement.
C10_UnreplaceRestoresNative ==
  /\ (ev.kind = "replace" /\ ev.repl = NULL /\ ev.override) =>
       (ev.ok /\ replace_table[ev.func] = NULL)
  /\ (ev.kind = "call" /\ ev.func = "replaceme" /\ ev.ok) =>
       /\ ev.body = IF replace_table["replaceme"] = NULL THEN "replaceme"
                    ELSE replace_table["replaceme"]
       /\ Last(app_stack).body = ev.body

\* The library's load installed a replacement for replaceme, so a call
\* that runs replaceme's own code comes after its removal.
C10_Witness ==
  /\ ev.kind = "call" /\ ev.func = "replaceme" /\ ev.body = "replaceme"
  /\ loaded /\ ~aborted /\ replace_table["replaceme"] = NULL

\* Whether func is wrapped with the pair now.
IsWrapped(func, pre, post) == drwrap_is_wrapped(Ctx, func, pre, post)

\* C11: drwrap_wrap followed by drwrap_unwrap with the same pair is a
\* no-op: at every successful wrap, the unwrap of the same pair succeeds,
\* gives back the wraps there were before and leaves the function not
\* wrapped with the pair; and a call of a function without wraps invokes
\* no callback and runs the function.
C11_WrapUnwrapNoOp ==
  /\ [][(ev'.kind = "wrap" /\ ev'.ok) =>
          LET G == drwrap_unwrap(Ctx', ev'.func, ev'.pair.pre, ev'.pair.post)
          IN  /\ G.ok
              /\ G.wt = wrap_table
              /\ ~drwrap_is_wrapped(G, ev'.func, ev'.pair.pre,
                                    ev'.pair.post)]_vars
  /\ [](ev.kind = "unwrap" =>
          ~IsWrapped(ev.func, ev.pair.pre, ev.pair.post))
  /\ []((ev.kind = "call" /\ ev.reg = <<>>) =>
          (ev.cbs = <<>> /\ ~ev.skip /\ ev.body # NULL))

\* The client's own wrap of skipme has been removed again, and skipme is
\* left with the wraps it had before.
C11_Witness ==
  /\ ev.kind = "unwrap" /\ ev.ok /\ loaded
  /\ ev.pair = Pair("wrap_pre", NULL)
  /\ Len(wrap_table[ev.func]) = 1
  /\ IsWrapped(ev.func, "wrap_pre", "wrap_post")

\* The functions module_load_event wraps with both callbacks and
\* module_unload_event unwraps.
BothWrapped == {"level0", "level1", "level2", "makes_tailcall"}

\* C12: drwrap_is_wrapped holds for a pair from its successful wrap to
\* its unwrap, and for that pair only: the pairs of the load handler are
\* wrapped exactly while the library is loaded, a pre-only wrap does not
\* count as the pair with a post-callback or as a post-only wrap, and a
\* wrap or unwrap by the client changes the answer for its own pair as
\* its result says.
C12_IsWrappedExact ==
  /\ ~aborted =>
       /\ \A f \in BothWrapped :
            /\ IsWrapped(f, "wrap_pre", "wrap_post") = loaded
            /\ ~IsWrapped(f, "wrap_pre", NULL)
            /\ ~IsWrapped(f, NULL, "wrap_post")
       /\ IsWrapped("preonly", "wrap_pre", NULL) = loaded
       /\ ~IsWrapped("preonly", "wrap_pre", "wrap_post")
       /\ ~IsWrapped("preonly", NULL, "wrap_post")
       /\ ~IsWrapped("postonly", "wrap_pre", "wrap_post")
       /\ ~IsWrapped("postonly", "wrap_pre", NULL)
       /\ \A f \in LongFuncs :
            /\ IsWrapped(f, "wrap_unwindtest_pre", "wrap_unwindtest_post")
                 = loaded
            /\ IsWrapped(f, "wrap_unwindtest_seh_pre",
                         "wrap_unwindtest_seh_post")
                 = (loaded /\ windows /\ load_count = 1)
            /\ ~IsWrapped(f, "wrap_unwindtest_pre", NULL)
  /\ ev.kind = "wrap" =>
       IF ev.ok
       THEN ev.prev = NULL /\ IsWrapped(ev.func, ev.pair.pre, ev.pair.post)
       ELSE IsWrapped(ev.func, ev.pair.pre, ev.pair.post) = (ev.prev # NULL)
  /\ ev.kind = "unwrap" =>
       /\ ev.ok = (ev.prev # NULL)
       /\ ~IsWrapped(ev.func, ev.pair.pre, ev.pair.post)

\* The library is loaded, the post-only wrap of postonly is in place and
\* the client has just added a pre-only wrap to skipme.
C12_Witness ==
  /\ ~aborted /\ loaded
  /\ IsWrapped("postonly", NULL, "wrap_post")
  /\ IsWrapped("preonly", "wrap_pre", NULL)
  /\ ev.kind = "wrap" /\ ev.ok
  /\ IsWrapped("skipme", "wrap_pre", NULL)
  /\ IsWrapped("skipme", "wrap_pre", "wrap_post")

C15_DetachRefused ==
  dr.last[1] = "denied" =>
    LET d == dr.last[2]
    IN  /\ ~dr.doing_detach
        /\ dr.dynamo_detaching_flag = "LOCK_FREE_STATE"
        /\ dr.unprotected = 0
        /\ dr.syslog
        /\ dr.dynamo_initialized
        /\ dr.intercepted /\ ~dr.reverted
        /\ ~dr.init_apc_go_native /\ ~dr.init_apc_go_native_pause
        /\ dr.all_threads_synch_lock = NULL
        /\ dr.thread_initexit_lock = NULL
        /\ \A u \in Tids : thr[u].st \notin {"suspended", "resumed"}
        /\ \A u \in Tids : thr[u].at = "none"
        /\ thr[d].term = {} =>
             (dr.process = "alive" /\ thr[d].st = "running")

\* A nudge's detach has just been refused.
C15_Witness ==
  /\ dr.last[1] = "denied"
  /\ thr[dr.last[2]].term = {}
  /\ thr[dr.last[2]].st = "running"
  /\ ~dr.allow_detach /\ ~dr.internal_detach

\* Thread t has all threads synched.
InSynch(t) ==
  /\ thr[t].st # "dead"
  /\ thr[t].at \in {"synched", "unhooked", "translating", "synchall"}

InDetach(t) ==
  thr[t].at \in {"flagged", "paused", "allowed", "synched", "unhooked",
                 "translating"}

\* C17 as amended: os_terminate does not return to its caller; called
\* with TERMINATE_PROCESS it terminates the process when neither
\* detach-on-terminate option is set, and with one set it detaches
\* instead, the process staying alive, or ends only the calling thread
\* when the detach is refused or under way (the process if that is the
\* last thread).
C17_TerminateNoReturn ==
  \A t \in Tids :
    thr[t].term # {} =>
      /\ dr.process = "terminated" \/ thr[t].st = "dead" \/ InDetach(t)
      /\ (thr[t].term = {"TERMINATE_PROCESS"}
            /\ dr.internal_detach_mask = "none")
         => dr.process = "terminated"
      /\ (thr[t].term = {"TERMINATE_PROCESS", "TERMINATE_CLEANUP"})
         => dr.process = "terminated"

\* C17 as claimed: once os_terminate with TERMINATE_PROCESS is through,
\* the process is terminated.
C17_ProcessTerminated ==
  \A t \in Tids :
    (thr[t].term = {"TERMINATE_PROCESS"} /\ ~InDetach(t)) =>
      dr.process = "terminated"

\* os_terminate with TERMINATE_PROCESS has detached instead: its thread
\* is gone, the other threads run natively and the process is alive.
C17_Witness ==
  \E t \in Tids :
    /\ thr[t].term = {"TERMINATE_PROCESS"}
    /\ thr[t].st = "dead"
    /\ dr.last = <<"detached", t>>
    /\ dr.process = "alive"
    /\ \E u \in Tids : thr[u].st = "resumed"

\* The injectee has been handed to the library's entry: its stack block
\* is written and its registers are set.
Handed_over == inj.at = "pushed" \/ inj.ret = "true"

\* The stack block of the claim: argc is the sentinel, the home
\* directory is $HOME cut to the path buffer, the block lies wholly
\* below the red zone of the stack pointer the injectee stopped with, at
\* an aligned address.
BlockPushed ==
  LET b == inj.block[1]
  IN  /\ Len(inj.block) = 1
      /\ b.args.argc = "ARGC_PTRACE_SENTINEL"
      /\ b.args.home_dir = strncpy_terminated(inj.HOME, MAXIMUM_PATH)
      /\ Len(inj.HOME) < MAXIMUM_PATH => b.args.home_dir = inj.HOME
      /\ b.at % REGPARM_END_ALIGN(inj.x64) = 0
      /\ b.at + b.len <= inj.stopped.sp - REDZONE_SIZE(inj.x64)
      /\ b.at + b.len + REGPARM_END_ALIGN(inj.x64)
           > inj.stopped.sp - REDZONE_SIZE(inj.x64)
      /\ inj.regs.sp = b.at
      /\ inj.regs.pc = inj.injected_dr_start
      /\ inj.regs.ax = inj.stopped.ax
      /\ inj.regs.flags = inj.stopped.flags
      /\ inj.code = "orig"

\* C18 as amended: ptrace injection hands the injectee to the library's
\* entry with the stack block {argc sentinel, saved machine context,
\* home directory}, written below the red zone at an aligned address;
\* the stack pointer points at the block and the PC is the entry.  The
\* saved context holds the PC, the stack pointer and the general-purpose
\* registers the injectee stopped with; its flags are zero, whatever the
\* injectee's flags were.
C18_PtraceStackBlock ==
  Handed_over =>
    /\ BlockPushed
    /\ LET mc == inj.block[1].args.mc
       IN  /\ mc.pc = inj.stopped.pc
           /\ mc.sp = inj.stopped.sp
           /\ mc.ax = inj.stopped.ax
           /\ mc.flags = 0

\* C18 as claimed: the saved context holds the register values the
\* injectee had before the injection.
C18_ContextHoldsRegisters ==
  Handed_over =>
    /\ BlockPushed
    /\ inj.block[1].args.mc = inj.stopped

\* A 64-bit child walked across its execve has been handed over from a
\* stack pointer that was not aligned, after two runs of shellcode.
C18_Witness ==
  /\ inj.at = "pushed"
  /\ inj.x64
  /\ inj.stopped.sp % 16 # 0
  /\ inj.stopped.pc % PAGE_SIZE # 0
  /\ inj.block # <<>>
  /\ inj.block[1].args.mc.pc = inj.stopped.pc
  /\ inj.regs.pc \in EntryVals

\* The child whose injection has been decided.
Asked == IF kid.child = <<>> THEN FALSE ELSE kid.child[1].asked

Excluded == TEST("INJECT_EXCLUDED", kid.child[1].should_inject)

\* The child is configured to run under the engine, system-wide
\* injection is enabled and the child is not explicit.
LeftToPreinjector ==
  /\ TEST("INJECT_TRUE", kid.child[1].should_inject)
  /\ kid.child[1].systemwide_inject_enabled
  /\ ~TEST("INJECT_EXPLICIT", kid.child[1].should_inject)

\* C19: with -follow_children a new child is selected for injection
\* unless it is excluded or left to the system-wide preinjector: a child
\* that is neither is selected, an excluded child is not, and a child
\* left to the preinjector is not (-follow_systemwide, which selects
\* every configured child itself, aside).  With no follow option no
\* child is selected.
C19_FollowChildren ==
  Asked =>
    /\ kid.child[1].options.follow_children =>
         /\ (~Excluded /\ ~LeftToPreinjector) => kid.child[1].inject
         /\ Excluded => ~kid.child[1].inject
         /\ (LeftToPreinjector /\ ~kid.child[1].options.follow_systemwide)
              => ~kid.child[1].inject
    /\ (~kid.child[1].options.follow_children
          /\ ~kid.child[1].options.follow_explicit_children
          /\ ~kid.child[1].options.follow_systemwide) => ~kid.child[1].inject
    /\ kid.child[1].injecting = kid.child[1].inject

\* With -follow_children alone, an unconfigured child has been selected
\* at its first thread.
C19_Witness ==
  /\ Asked
  /\ kid.child[1].options = [follow_children |-> TRUE,
                             follow_explicit_children |-> FALSE,
                             follow_systemwide |-> FALSE]
  /\ kid.child[1].cxt # NULL
  /\ kid.child[1].should_inject = {}
  /\ kid.child[1].inject

\* C20: a misused call on a wrap context (drwrap_set_retval or
\* drwrap_get_retval in a pre-callback, drwrap_set_arg in a
\* post-callback) is refused and changes nothing, and is not fatal: the
\* call runs the function with the arguments the other callbacks left,
\* the caller sees the return value the other callbacks left, every
\* pre-callback and post-callback of the function is called, and the
\* client is not aborted.
C20_MisuseIgnored ==
  /\ ~aborted
  /\ (ev.kind = "call" /\ ev.engine) =>
       /\ ev.flagged /\ ev.ok /\ ~ev.skip
       /\ ev.body = ev.func
       /\ ev.args[1] = ev.seen[1]
       /\ ev.args[2] = IF ev.func = "level1" THEN 1111 ELSE ev.seen[2]
       /\ Names(ev.cbs) = PreNames(Reverse(ev.reg))
  /\ (ev.kind = "return" /\ ev.engine) =>
       /\ ev.flagged /\ ev.ok
       /\ ev.ret = IF ev.func = "level1" THEN -4
                   ELSE BodyRet(ev.body, ev.args)
       /\ Names(ev.cbs) = PostNames(Reverse(ev.reg))

\* level1, wrapped by the test client's pair and by the misusing pair,
\* has returned: all four callbacks have run and the misuse was refused.
C20_Witness ==
  /\ ev.kind = "return" /\ ev.func = "level1" /\ ev.engine
  /\ ev.flagged /\ ~aborted
  /\ Names(ev.cbs) = <<"misuse_post", "wrap_post">>
  /\ ev.ret = -4
  /\ ev.nested

\* The threads past the compare-and-swap of detach_helper.
Detachers == {t \in Tids : thr[t].st # "dead" /\ InDetach(t)}

\* C22: at most one thread at a time is past the compare-and-swap on
\* dynamo_detaching_flag, which is set while one is; a caller that
\* loses the compare-and-swap returns and leaves doing_detach, the
\* go-native flags, the flag itself, the locks and every thread as they
\* were.
C22_OneDetacher ==
  /\ [](Cardinality(Detachers) <= 1)
  /\ [](Detachers # {} => dr.dynamo_detaching_flag = "LOCK_SET_STATE")
  /\ [][dr'.last[1] = "busy" =>
          LET t == dr'.last[2]
          IN  /\ dr' = [dr EXCEPT !.last = dr'.last,
                                  !.process = dr'.process]
              /\ \A u \in Tids \ {t} : thr'[u] = thr[u]
              /\ thr[t].at = "none"
              /\ thr'[t].term = {} =>
                   (thr'[t] = thr[t] /\ dr'.process = dr.process)]_vars

\* A nudge thread has lost the compare-and-swap to a thread that is
\* through the allow_detach check.
C22_Witness ==
  /\ dr.last[1] = "busy"
  /\ thr[dr.last[2]].term = {}
  /\ thr[dr.last[2]].st = "running"
  /\ \E u \in Detachers : u # dr.last[2] /\ thr[u].at = "allowed"
  /\ dr.doing_detach /\ dr.init_apc_go_native

\* C23: while init_apc_go_native is set and the ntdll interception is
\* not yet taken back and the memory protections not yet reverted,
\* init_apc_go_native_pause is set: go-native with the pause clear is
\* seen only after the unpatching.
C23_PauseCoversGoNative ==
  /\ (dr.init_apc_go_native /\ ~dr.init_apc_go_native_pause) =>
       (~dr.intercepted /\ dr.reverted)
  /\ (dr.init_apc_go_native /\ (dr.intercepted \/ ~dr.reverted)) =>
       dr.init_apc_go_native_pause
  /\ (\E t \in Tids : thr[t].st # "dead"
                        /\ thr[t].at \in {"allowed", "synched", "unhooked"})
       => (dr.init_apc_go_native /\ dr.init_apc_go_native_pause)

\* The unpatching is done and the pause has just been released.
C23_Witness ==
  /\ dr.last[1] = "released"
  /\ dr.init_apc_go_native /\ ~dr.init_apc_go_native_pause
  /\ ~dr.intercepted /\ dr.reverted

\* The step is a return of detach_helper to os_terminate in thread t.
BackInTerminate(t) ==
  /\ dr'.last # dr.last \/ thr' # thr
  /\ dr'.last[1] \in {"busy", "denied", "uninitialized"}
  /\ dr'.last[2] = t
  /\ thr'[t].via = "os_terminate"

OutOfOrder(t) ==
  {<<lck.held[t][i], lck.held[t][j]>> :
     <<i, j>> \in {p \in (1 .. Len(lck.held[t])) \X (1 .. Len(lck.held[t])) :
                     /\ p[1] < p[2]
                     /\ RankOf(lck.held[t][p[1]]) > RankOf(lck.held[t][p[2]])}}

Dumpers == {t \in LockTids : lck.at[t] \in DumpStates}

\* The step writes one of the statics of the core dump (the end of the
\* process, which ends every dump with it, is no write).
WritesDumpStatics ==
  /\ lck'.last[1] # "terminated"
  /\ \/ lck'.current_dumping_thread_id # lck.current_dumping_thread_id
     \/ lck'.dump_core_buf # lck.dump_core_buf
     \/ lck'.have_all_threads_lock # lck.have_all_threads_lock
     \/ lck'.i # lck.i
     \/ lck'.last[1] \in {"dumping", "tried", "wrote", "cleaned", "left"}

\* The step is os_dump_core's entry, which compares
\* current_dumping_thread_id with the caller's id.
ReadsDumpingId == lck'.last[1] \in {"entered", "recursed"}

HoldsDumpLock(t) ==
  lck.owner["dump_core_lock"] = t \/ lck'.owner["dump_core_lock"] = t

GotEvent == {t \in MutexTids : mtx.th[t].at \notin {"idle", "create", "cas"}}

\* The contenders that hold an event of their own, not yet offered.
Offering == {t \in MutexTids : mtx.th[t].at = "cas"}

\* C25: whatever the interleaving of the threads on the contended path
\* of one lock, one event is installed and stays: every caller of
\* mutex_get_contended_event comes back with the installed handle, never
\* with CONTENTION_EVENT_NOT_CREATED, and the events still open are the
\* installed one and those of the threads that have not yet tried to
\* install theirs; every other created event is closed.
C25_OneEvent ==
  /\ [](\A t \in GotEvent :
          /\ mtx.th[t].ret # CONTENTION_EVENT_NOT_CREATED
          /\ mtx.th[t].ret = mtx.contended_event)
  /\ [](mtx.open =
          ({mtx.contended_event} \ {CONTENTION_EVENT_NOT_CREATED})
            \cup {mtx.th[t].new_event : t \in Offering})
  /\ [](mtx.open \cap mtx.closed = {})
  /\ [](mtx.contended_event \notin mtx.closed)
  /\ [][mtx.contended_event # CONTENTION_EVENT_NOT_CREATED
          => mtx'.contended_event = mtx.contended_event]_vars

\* All the threads raced: each created an event, one was installed, the
\* others are closed, and all are back with the same handle.
C25_Witness ==
  /\ GotEvent = MutexTids
  /\ \A t \in MutexTids :
       mtx.th[t].new_event # CONTENTION_EVENT_NOT_CREATED
  /\ Cardinality(mtx.closed) = MaxContenders - 1
  /\ mtx.open = {mtx.contended_event}
  /\ \A t \in MutexTids : mtx.th[t].ret = mtx.contended_event

PastPipe ==
  \/ chp.child.at \in {"exec", "running"}
  \/ chp.child.real_exe # <<>>
  \/ chp.child.status = ExecFailed

\* C26 (as the code has it): the child of dr_inject_process_create
\* leaves its read loop only when the injector has closed the write end
\* of the pipe or when MAXIMUM_PATH - 1 bytes of command have arrived;
\* what it has read then is all that was written.  It then execs the
\* application with nothing set if nothing was written, the application
\* with the preload environment for the library of an ld_preload command,
\* the application for ptrace, and the library of an exec_dr command with
\* DYNAMORIO_VAR_EXE_PATH naming the application.
C26_BlockedOnPipe ==
  /\ PastPipe =>
       \/ chp.info.pipe_fd = 0
       \/ chp.child.sofar >= MAXIMUM_PATH - 1
  /\ PastPipe => (chp.child.pipe_cmd = chp.written /\ chp.pipe = <<>>)
  /\ chp.child.at = "running" =>
       LET path == SubSeq(chp.written, 3, Len(chp.written))
       IN  CASE chp.written = <<>> ->
                  /\ chp.child.real_exe = <<"exe">>
                  /\ chp.child.LD_PRELOAD = <<>>
                  /\ chp.child.DYNAMORIO_VAR_EXE_PATH = <<>>
             [] chp.info.method = "INJECT_LD_PRELOAD" /\ chp.written # <<>> ->
                  /\ chp.written[1] = "ld_preload"
                  /\ chp.child.real_exe = <<"exe">>
                  /\ chp.child.LD_PRELOAD = path
                  /\ path # <<>>
                  /\ chp.child.DYNAMORIO_VAR_EXE_PATH = <<>>
             [] chp.info.method = "INJECT_PTRACE" /\ chp.written # <<>> ->
                  /\ chp.written = <<"ptrace">>
                  /\ chp.child.real_exe = <<"exe">>
                  /\ chp.child.LD_PRELOAD = <<>>
                  /\ chp.child.DYNAMORIO_VAR_EXE_PATH = <<>>
             [] chp.info.method = "INJECT_EARLY" /\ chp.written # <<>> ->
                  /\ chp.written[1] = "exec_dr"
                  /\ chp.child.real_exe = path
                  /\ path # <<>>
                  /\ chp.child.LD_PRELOAD = <<>>
                  /\ chp.child.DYNAMORIO_VAR_EXE_PATH = <<"exe">>

\* C26 (as the specification has it): the child stays blocked on the
\* pipe until the injector closes its write end.
C26_UntilClosed ==
  PastPipe => chp.info.pipe_fd = 0

\* The child was let go by dr_inject_process_run after an exec_dr command
\* shorter than the buffer and runs the engine's library.
C26_Witness ==
  /\ chp.child.at = "running"
  /\ chp.ran
  /\ chp.info.method = "INJECT_EARLY"
  /\ chp.written = <<"exec_dr", " ", "/", "/">>
  /\ chp.child.real_exe = LibPath(2)
  /\ chp.child.DYNAMORIO_VAR_EXE_PATH = <<"exe">>

Requested == mem.start .. (mem.start + mem.requested_size - 1)
Walked == mem.start .. (mem.pc - 1)

PagesMeet(range) ==
  \A k \in range :
    mem.pages[k].State = "MEM_COMMIT"
      => Meets(mem.pages[k].Protect, mem.set, mem.writable, mem.new_prot)

\* C30 (as the code has it): internal_change_protection returns false
\* exactly when a protection request on a subregion failed or the walk
\* met a free block.  When it returns true, every committed page the
\* walk got past has the requested protection; that is the whole range
\* unless query_virtual_memory failed, which ends the walk early with the
\* result still true.
C30_TrueIfNoneFailed ==
  mem.at = "returned" =>
    /\ mem.ret = ~mem.subregions_failed
    /\ mem.requests_failed > 0 => ~mem.ret
    /\ ~mem.ret =>
         \/ mem.requests_failed > 0
         \/ mem.pages[mem.pc].State = "MEM_FREE"
    /\ mem.ret => PagesMeet(Walked)
    /\ (mem.ret /\ ~mem.query_failed) =>
         (Walked = Requested /\ PagesMeet(Requested))

\* C30 (as the specification has it): a result of true means that every
\* committed page of the range has the requested protection.
C30_TrueMeansAll ==
  (mem.at = "returned" /\ mem.ret) => PagesMeet(Requested)

\* A request over the whole memory to make it writable changed the
\* first page, skipped nothing, and returned true with both pages
\* committed and writable.
C30_Witness ==
  /\ mem.at = "returned"
  /\ mem.ret
  /\ ~mem.set
  /\ mem.writable
  /\ mem.changed_permissions
  /\ ~mem.query_failed
  /\ Requested = PageNos
  /\ \A k \in PageNos :
       /\ mem.pages[k].State = "MEM_COMMIT"
       /\ mem.pages[k].Protect \in WritableProtections

\* The pages of the request's range whose protection is not the one the
\* call found.
ChangedPages ==
  {k \in Requested : mem.pages[k] # mem.entry[k]}

\* The committed pages the walk got past that did not meet the request
\* when the call found them.
WalkedUnmet ==
  {k \in Walked :
     /\ mem.entry[k].State = "MEM_COMMIT"
     /\ ~Meets(mem.entry[k].Protect, mem.set, mem.writable, mem.new_prot)}

\* C31 (as the code has it): internal_change_protection writes
\* changed_protection only when the caller passed one, and then it is
\* true exactly when protect_virtual_memory was called on at least one
\* subregion, whether or not that call succeeded: for the relative
\* request of make_hookable that is exactly when a committed page the
\* walk got past was not writable.  When it is false no page was
\* changed; when it is true and no protection request failed, at least
\* one page was changed.
C31_TrueIfProtectCalled ==
  mem.at = "returned" =>
    IF mem.has_out
      THEN /\ Len(mem.changed_protection) = 1
           /\ mem.changed_protection[1] = (mem.protect_calls > 0)
           /\ mem.changed_protection[1] = (WalkedUnmet # {})
           /\ ~mem.changed_protection[1] => ChangedPages = {}
           /\ (mem.changed_protection[1] /\ mem.requests_failed = 0)
                => ChangedPages # {}
      ELSE mem.changed_protection = <<>>

\* C31 (as the specification has it): changed_protection is true
\* exactly when the protection of at least one subregion was changed.
C31_TrueIffChanged ==
  (mem.at = "returned" /\ mem.has_out) =>
    /\ Len(mem.changed_protection) = 1
    /\ mem.changed_protection[1] = (ChangedPages # {})

\* make_hookable over the whole memory: the first page was read-only
\* and was made writable, the second was writable already, and
\* changed_protection is true.
C31_Witness ==
  /\ mem.at = "returned"
  /\ mem.has_out
  /\ mem.changed_protection = <<TRUE>>
  /\ mem.ret
  /\ Requested = PageNos
  /\ ChangedPages = {1}
  /\ mem.entry[1].Protect = "PAGE_READONLY"
  /\ mem.pages[1].Protect = "PAGE_READWRITE"
  /\ mem.entry[2].State = "MEM_COMMIT"
  /\ mem.entry[2].Protect = "PAGE_READWRITE"

\* inject_ptrace is in the loop that continues the injectee, or has
\* returned from it or from the test after it.
InContinueLoop == inj.loop # "none"

\* Every stop but the last was with SIGSEGV.
OnlyFaultsBefore ==
  \A i \in 1 .. (Len(inj.stops) - 1) : inj.stops[i] = "SIGSEGV"

\* The first PTRACE_CONT delivers nothing, and each later one delivers
\* the SIGSEGV of the stop before it.
FaultsDelivered ==
  \A i \in 1 .. Len(inj.conts) :
    inj.conts[i] = IF i = 1 THEN NoSignal ELSE inj.stops[i - 1]

\* C32: inject_ptrace returns true from its last part only when the
\* injectee's last stop was with SIGTRAP; every stop before it was with
\* SIGSEGV, and each of those was delivered back to the injectee by the
\* next PTRACE_CONT before the wait went on.  A failing PTRACE_CONT, a
\* failing waitpid, a wait status that is not a stop, and a stop with a
\* signal other than SIGSEGV and SIGTRAP each make it return false.
C32_TrueOnlyOnTrap ==
  InContinueLoop =>
    /\ OnlyFaultsBefore
    /\ FaultsDelivered
    /\ Len(inj.conts) \in {Len(inj.stops), Len(inj.stops) + 1}
    /\ inj.ret = "true" =>
         /\ inj.stops # <<>>
         /\ inj.stops[Len(inj.stops)] = "SIGTRAP"
         /\ Len(inj.conts) = Len(inj.stops)
    /\ (inj.at = "returned" /\ inj.stops # <<>>
          /\ inj.stops[Len(inj.stops)] \notin {"SIGSEGV", "SIGTRAP"})
         => inj.ret = "false"
    /\ (inj.at = "returned" /\ inj.loop \in {"cont", "wait"})
         => inj.ret = "false"
    /\ (inj.at = "returned" /\ inj.ret = "false") =>
         \/ inj.loop \in {"cont", "wait"}
         \/ inj.stops[Len(inj.stops)] \notin {"SIGSEGV", "SIGTRAP"}

\* The injectee faulted twice while the engine initialised, both faults
\* were delivered to it, it stopped with SIGTRAP, and inject_ptrace
\* returned true.
C32_Witness ==
  /\ inj.at = "returned"
  /\ inj.ret = "true"
  /\ inj.stops = <<"SIGSEGV", "SIGSEGV", "SIGTRAP">>
  /\ inj.conts = <<NoSignal, "SIGSEGV", "SIGSEGV">>

\* Thread i had stacked callbacks when the detach began.
HadCallbacks(i) == Len(cbk.dcontexts[i]) + Len(cbk.landed[i]) > 0

\* The return address on the stack of every callback still stacked in
\* thread i is the application's post-syscall PC.
StackRewritten(i) ==
  \A k \in 1 .. Len(cbk.dcontexts[i]) :
    cbk.dcontexts[i][k].xsp_slot = cbk.dcontexts[i][k].post_syscall_pc

\* The return PC of every callback still stacked in thread i is in
\* callback_addrs, and the thread has a per_thread entry that counts
\* all the callbacks it had.
ReturnsRecorded(i) ==
  /\ \A k \in 1 .. Len(cbk.dcontexts[i]) :
       \E n \in 1 .. Len(cbk.callback_addrs) :
         cbk.callback_addrs[n] = cbk.dcontexts[i][k].post_syscall_pc
  /\ \E j \in 1 .. Len(cbk.per_thread) :
       /\ cbk.per_thread[j].tid = i
       /\ cbk.per_thread[j].count
            = Len(cbk.dcontexts[i]) + Len(cbk.landed[i])

PastFirstWalk == cbk.at \notin {"first_walk"}
PastSecondWalk == cbk.at \notin {"first_walk", "second_walk"}

\* C33 (as the code has it): no callback return of a thread goes into
\* private code that the detach freed.  For a thread with stacked
\* callbacks cleanup_tpc is true exactly when the method is sysenter and
\* the return addresses on its stack were rewritten to the post-syscall
\* PCs; otherwise the return PC of each of its callbacks is recorded and
\* its after-syscall code is patched.  The private code of a thread
\* other than the detaching one is freed only if its cleanup_tpc is
\* true.  The detaching thread's own private code is freed whatever its
\* cleanup_tpc says, and that thread is terminated with it.
C33_FreedOnlyIfNoReturn ==
  \A i \in CbTids :
    /\ \A k \in 1 .. Len(cbk.landed[i]) : cbk.landed[i][k] = "app"
    /\ (PastFirstWalk /\ HadCallbacks(i)) =>
         /\ cbk.cleanup_tpc[i] = FixesStack(cbk)
         /\ cbk.cleanup_tpc[i] => StackRewritten(i)
    /\ (PastFirstWalk /\ ~HadCallbacks(i)) => cbk.cleanup_tpc[i]
    /\ (PastSecondWalk /\ HadCallbacks(i) /\ ~FixesStack(cbk)) =>
         /\ ReturnsRecorded(i)
         /\ i \in cbk.patched
         /\ cbk.detach_stacked_callbacks
    /\ (cbk.tpc[i] = "freed" /\ i # cbk.my_thread_index) =>
         cbk.cleanup_tpc[i]
    /\ (cbk.tpc[i] = "freed" /\ i = cbk.my_thread_index) =>
         cbk.state[i] = "terminated"

\* C33 (as the specification has it): the private code of a thread with
\* stacked callbacks is freed only when the method is sysenter and its
\* stack was rewritten, and is kept otherwise.
C33_KeptUnlessRewritten ==
  \A i \in CbTids :
    (HadCallbacks(i) /\ cbk.tpc[i] = "freed") =>
      (FixesStack(cbk) /\ StackRewritten(i))

\* A detach with the int method: thread 2 had two stacked callbacks, its
\* private code was kept, and both callbacks returned to the
\* application; thread 1, with none, detached and had its code freed.
C33_Witness ==
  /\ cbk.at = "done"
  /\ cbk.syscall_method = "SYSCALL_METHOD_INT"
  /\ cbk.detach_type = "DETACH_NORMAL_TYPE"
  /\ cbk.my_thread_index = 1
  /\ cbk.tpc = <<"freed", "live">>
  /\ cbk.landed = <<(<<>>), <<"app", "app">>>>
  /\ cbk.callback_addrs = <<POST_SYSCALL_PC(2, 1), POST_SYSCALL_PC(2, 2)>>
  /\ ~cbk.cleanup_tpc[2]

\* The threads that are inside dr_terminate_client_thread and will
\* terminate: past the test of the record and not yet terminated.
Terminating ==
  {t \in CliTids : cli.at[t] \in {"looked_up", "counted", "removed"}}

\* C34: a client thread that terminates itself is, at every instant
\* from the test of its record until it terminates, on the all-threads
\* list or counted in exiting_thread_count; it is counted before it is
\* taken off the list.  A thread that dr_terminate_client_thread refuses
\* is neither counted nor taken off the list.
C34_ListedOrCounted ==
  /\ \A t \in Terminating : t \in cli.all_threads \/ t \in cli.counted
  /\ cli.exiting_thread_count = Cardinality(cli.counted)
  /\ \A t \in CliTids :
       /\ cli.at[t] \in {"removed", "terminated"} =>
            (t \in cli.counted /\ t \notin cli.all_threads)
       /\ cli.ret[t] = "false" => t \notin cli.counted

\* One client thread is off the list and counted, not yet terminated,
\* while another is still on the list and counted.
C34_Witness ==
  /\ cli.at[1] = "removed"
  /\ cli.at[2] = "counted"
  /\ cli.all_threads \cap {1, 2} = {2}
  /\ cli.exiting_thread_count = 2

\* The list could not change during the dump: the dumping thread held
\* all_threads_lock.
ListStable == dmp.lock # "none"

\* thread_resume failed on every thread on which thread_suspend had
\* failed, and succeeded on the others: what the code assumes.
ResultsAgree ==
  \A t \in DmpTids : dmp.resumed[t] = dmp.suspended[t]

\* C35 (as the code has it): a live dump calls thread_suspend and then
\* thread_resume at most once on a thread.  If the dump holds
\* all_threads_lock it calls each of them exactly once on every thread
\* of the list other than itself, thread_resume also on a thread whose
\* thread_suspend failed; if in addition every such resume fails, and
\* no other does, the suspend counts are what they were when the dump
\* began.  The lock the dump took is released.
C35_ResumesTheListed ==
  /\ \A t \in DmpTids :
       /\ Len(dmp.suspended[t]) <= 1
       /\ Len(dmp.resumed[t]) <= 1
  /\ dmp.at = "returned" =>
       /\ ~dmp.have_all_threads_lock
       /\ ListStable =>
            \A t \in DmpTids :
              /\ (t \in dmp.entry_threads) = (dmp.suspended[t] # <<>>)
              /\ (t \in dmp.entry_threads) = (dmp.resumed[t] # <<>>)
       /\ (ListStable /\ ResultsAgree) => dmp.suspend_count = dmp.entry

\* C35 (as the specification has it): when the dump returns, the
\* suspend counts are unchanged, every thread the dump suspended was
\* resumed by it, and no thread it did not suspend was resumed by it.
C35_OnlyTheSuspended ==
  dmp.at = "returned" =>
    /\ dmp.suspend_count = dmp.entry
    /\ \A t \in DmpTids :
         (dmp.suspended[t] = <<TRUE>>) = (dmp.resumed[t] = <<TRUE>>)

\* A dump that held the lock: both threads were on the list, thread 1
\* already suspended by a caller; both were suspended and resumed once,
\* and thread 1 is still suspended once.
C35_Witness ==
  /\ dmp.at = "returned"
  /\ dmp.lock = "taken"
  /\ dmp.entry_threads = DmpTids
  /\ dmp.entry[1] = 1
  /\ dmp.suspend_count = dmp.entry
  /\ \A t \in DmpTids :
       dmp.suspended[t] = <<TRUE>> /\ dmp.resumed[t] = <<TRUE>>

====
